---- MODULE Spec2Model ----
(***************************************************************************)
(* Deep_Trust: the heuristic scoring engine of src/lib/file-utils.ts       *)
(* (analyzeBuffer, analyzeFile, the three visualisation generators and the *)
(* KNOWN_HASHES provenance registry).                                      *)
(*                                                                         *)
(* Numbers.  JavaScript numbers are IEEE doubles.  Scores are modelled in  *)
(* fixed point: the integer x stands for x / Scale, products and quotients *)
(* are rounded down to a multiple of 1 / Scale.  The one non-number the    *)
(* code can produce, NaN (0 / 0), is the distinguished value NaN; the      *)
(* arithmetic, Math.min / Math.max and the comparisons treat it as         *)
(* JavaScript does (it propagates, and every comparison with it is false). *)
(***************************************************************************)
EXTENDS Integers, Sequences, FiniteSets, TLC

(***************************************************************************)
(* Bounds of the model.                                                    *)
(***************************************************************************)
MaxLen == 1        \* longest byte sequence analysed
MaxCalls == 2      \* analyzeFile calls in one behaviour
MaxTime == 1       \* last reading of the wall clock

(***************************************************************************)
(* Fixed-point numbers and NaN.                                            *)
(***************************************************************************)
Scale == 100 * 100

NaN == 0 - 999999999

IsNaN(x) == x = NaN

Plus(a, b) == IF IsNaN(a) \/ IsNaN(b) THEN NaN ELSE a + b

Minus(a, b) == IF IsNaN(a) \/ IsNaN(b) THEN NaN ELSE a - b

Times(a, b) == IF IsNaN(a) \/ IsNaN(b) THEN NaN ELSE (a * b) \div Scale

\* n / d for integers n, d: 0 / 0 is NaN (the code never divides a
\* non-zero number by zero)
Quot(n, d) == IF d = 0 THEN NaN ELSE (n * Scale) \div d

MathMin(a, b) == IF IsNaN(a) \/ IsNaN(b) THEN NaN ELSE IF a < b THEN a ELSE b

MathMax(a, b) == IF IsNaN(a) \/ IsNaN(b) THEN NaN ELSE IF a > b THEN a ELSE b

MathAbs(a) == IF IsNaN(a) THEN NaN ELSE IF a < 0 THEN 0 - a ELSE a

Lt(a, b) == ~IsNaN(a) /\ ~IsNaN(b) /\ a < b

Gt(a, b) == ~IsNaN(a) /\ ~IsNaN(b) /\ a > b

Min(a, b) == IF a < b THEN a ELSE b

RECURSIVE BitLen(_)
\* number of binary digits of n >= 0
BitLen(n) == IF n = 0 THEN 0 ELSE 1 + BitLen(n \div 2)

RECURSIVE Pow2(_)
Pow2(k) == IF k = 0 THEN 1 ELSE 2 * Pow2(k - 1)

LogBits == 2 * 7

RECURSIVE Log2Frac(_, _, _)
\* the fraction bits of log2(y / 2^LogBits) for y / 2^LogBits in [1, 2),
\* by repeated squaring; k bits are still to come, acc holds those found
Log2Frac(y, k, acc) ==
    IF k = 0 THEN acc
    ELSE LET sq == (y * y) \div Pow2(LogBits)
         IN  IF sq >= Pow2(LogBits + 1)
             THEN Log2Frac(sq \div 2, k - 1, 2 * acc + 1)
             ELSE Log2Frac(sq, k - 1, 2 * acc)

\* Math.log2 of the integer n >= 1
Log2Int(n) ==
    LET e == BitLen(n) - 1
        y == IF e <= LogBits THEN n * Pow2(LogBits - e) ELSE n \div Pow2(e - LogBits)
    IN  e * Scale + (Log2Frac(y, LogBits, 0) * Scale) \div Pow2(LogBits)

\* Math.log2(c / n) for integers 1 <= c <= n
Log2Ratio(c, n) == Log2Int(c) - Log2Int(n)

(***************************************************************************)
(* Inputs: byte sequences and declared MIME types.  A MIME type            *)
(* "image/png" is the pair <<"image", "png">>, so that                     *)
(* mimeType.startsWith("image/") reads the first component.                *)
(***************************************************************************)
Bytes == {0, 1, 255}

Buffers == UNION {[1..n -> Bytes] : n \in 0..MaxLen}

\* the byte sequences of the repeated analyses: the empty one, one byte that
\* is anomalous in a header and one that is not, and two bytes of which one
\* is anomalous, close to each other and far from each other
Specimens == {<<>>, <<0>>, <<1>>, <<0, 1>>, <<1, 255>>}

MimeTypes == {<<"image", "png">>, <<"video", "mp4">>, <<"audio", "wav">>,
              <<"application", "pdf">>}

FileNames == {"clip"}

\* Math.random() returns a number in [0, 1)
RandomDraws == {0, Scale - 1}

(***************************************************************************)
(* src/lib/file-utils.ts, lines 3-34                                       *)
(***************************************************************************)
MAX_FILE_SIZE == 100 * 1024 * 1024

ALLOWED_TYPES == {"image", "video", "audio"}

isAllowedType(mimeType) == \E prefix \in ALLOWED_TYPES : mimeType[1] = prefix

getMediaCategory(mimeType) ==
    IF mimeType[1] = "image" THEN "image"
    ELSE IF mimeType[1] = "video" THEN "video"
    ELSE IF mimeType[1] = "audio" THEN "audio"
    ELSE "unknown"

(***************************************************************************)
(* computeHash (lines 13-15): the SHA-256 digest in hexadecimal.  The      *)
(* model keeps the first 8 hexadecimal digits of the true digest of each   *)
(* byte sequence over Bytes of length <= 3, as the pair                    *)
(* <<digits 1-4, digits 5-8>> read as two 16-bit numbers; these prefixes   *)
(* are pairwise distinct, as the full digests are.                         *)
(***************************************************************************)
SHA256Prefix ==
    (<<>> :> <<58288, 50242>>) @@
    (<<0>> :> <<28212, 2972>>) @@
    (<<1>> :> <<19445, 4655>>) @@
    (<<255>> :> <<43024, 2790>>) @@
    (<<0, 0>> :> <<38562, 38610>>) @@
    (<<0, 1>> :> <<46099, 62589>>) @@
    (<<0, 255>> :> <<1771, 32106>>) @@
    (<<1, 0>> :> <<18396, 21516>>) @@
    (<<1, 1>> :> <<40399, 38817>>) @@
    (<<1, 255>> :> <<19258, 17397>>) @@
    (<<255, 0>> :> <<59997, 49045>>) @@
    (<<255, 1>> :> <<17276, 46138>>) @@
    (<<255, 255>> :> <<51759, 53263>>) @@
    (<<0, 0, 0>> :> <<28830, 32968>>) @@
    (<<0, 0, 1>> :> <<53110, 1517>>) @@
    (<<0, 0, 255>> :> <<44695, 19786>>) @@
    (<<0, 1, 0>> :> <<64238, 37719>>) @@
    (<<0, 1, 1>> :> <<64437, 40657>>) @@
    (<<0, 1, 255>> :> <<9894, 27398>>) @@
    (<<0, 255, 0>> :> <<11405, 1997>>) @@
    (<<0, 255, 1>> :> <<18431, 41962>>) @@
    (<<0, 255, 255>> :> <<31057, 63878>>) @@
    (<<1, 0, 0>> :> <<64336, 56327>>) @@
    (<<1, 0, 1>> :> <<34297, 3582>>) @@
    (<<1, 0, 255>> :> <<47022, 30505>>) @@
    (<<1, 1, 0>> :> <<40772, 44138>>) @@
    (<<1, 1, 1>> :> <<30152, 64772>>) @@
    (<<1, 1, 255>> :> <<65435, 22313>>) @@
    (<<1, 255, 0>> :> <<62624, 9282>>) @@
    (<<1, 255, 1>> :> <<40799, 30549>>) @@
    (<<1, 255, 255>> :> <<5779, 27921>>) @@
    (<<255, 0, 0>> :> <<32677, 19010>>) @@
    (<<255, 0, 1>> :> <<37934, 7722>>) @@
    (<<255, 0, 255>> :> <<10662, 41331>>) @@
    (<<255, 1, 0>> :> <<9224, 59283>>) @@
    (<<255, 1, 1>> :> <<37356, 18450>>) @@
    (<<255, 1, 255>> :> <<65479, 45714>>) @@
    (<<255, 255, 0>> :> <<1869, 39369>>) @@
    (<<255, 255, 1>> :> <<17136, 34342>>) @@
    (<<255, 255, 255>> :> <<23271, 59044>>)

computeHash(buffer) == SHA256Prefix[buffer]

\* parseInt(fileHash.substring(0, 8), 16) (line 177): a number below 2^32,
\* kept as <<high 16 bits, low 16 bits>>
hashSeedOf(fileHash) == <<fileHash[1], fileHash[2]>>

(***************************************************************************)
(* analyzeBuffer (lines 49-85)                                             *)
(***************************************************************************)
\* freq[v] after the loop of lines 56-58
Freq(buffer, v) ==
    Cardinality({i \in 1..Min(Len(buffer), 65536) : buffer[i] = v})

\* the buckets i with freq[i] > 0
Present(buffer) == {buffer[i] : i \in 1..Min(Len(buffer), 65536)}

RECURSIVE EntropyLoop(_, _)
\* the loop of lines 61-66 over the buckets in todo, in ascending order;
\* buckets with freq[i] = 0 are skipped (line 62) and are left out of todo
EntropyLoop(buffer, todo) ==
    IF todo = {} THEN 0
    ELSE LET i == CHOOSE v \in todo : \A w \in todo : w <= v
             len == Min(Len(buffer), 65536)
             p == Quot(Freq(buffer, i), len)
         IN  Minus(EntropyLoop(buffer, todo \ {i}),
                   Times(p, Log2Ratio(Freq(buffer, i), len)))

\* analyzeBuffer counting the anomalous bytes of the whole buffer
analyzeBufferNoWindow(buffer) ==
    LET entropy == EntropyLoop(buffer, Present(buffer))
        normalizedEntropy == IF IsNaN(entropy) THEN NaN ELSE entropy \div 8
        firstBlock == SubSeq(buffer, 1, Min(4096, Len(buffer)))
        uniqueBytes == Cardinality({firstBlock[i] : i \in 1..Len(firstBlock)})
        uniformity == Quot(uniqueBytes, 256)
        anomalyCount == Cardinality({i \in 1..Len(buffer) :
                            buffer[i] = 255 \/ buffer[i] = 0})
        headerAnomaly == Quot(anomalyCount, Len(buffer))
    IN  [entropy |-> normalizedEntropy, uniformity |-> uniformity,
         headerAnomaly |-> headerAnomaly]

analyzeBuffer(buffer) ==
    LET entropy == EntropyLoop(buffer, Present(buffer))
        normalizedEntropy == IF IsNaN(entropy) THEN NaN ELSE entropy \div 8
        firstBlock == SubSeq(buffer, 1, Min(4096, Len(buffer)))
        uniqueBytes == Cardinality({firstBlock[i] : i \in 1..Len(firstBlock)})
        uniformity == Quot(uniqueBytes, 256)
        headerBytes == SubSeq(buffer, 1, Min(64, Len(buffer)))
        anomalyCount == Cardinality({i \in 1..Len(headerBytes) :
                            headerBytes[i] = 255 \/ headerBytes[i] = 0})
        headerAnomaly == Quot(anomalyCount, Len(headerBytes))
    IN  [entropy |-> normalizedEntropy, uniformity |-> uniformity,
         headerAnomaly |-> headerAnomaly]

(***************************************************************************)
(* calculateVariance (lines 321-333).  With sum the sum of the n bytes,    *)
(* mean = sum / n and the result is the sum of (b - mean)^2 over n, that   *)
(* is the sum of (n b - sum)^2 over n^3, computed here without an          *)
(* intermediate rounding.                                                  *)
(***************************************************************************)
RECURSIVE SumBytes(_, _)
SumBytes(buffer, i) ==
    IF i > Len(buffer) THEN 0 ELSE buffer[i] + SumBytes(buffer, i + 1)

RECURSIVE SumSquares(_, _, _)
SumSquares(buffer, sum, i) ==
    IF i > Len(buffer) THEN 0
    ELSE (Len(buffer) * buffer[i] - sum) * (Len(buffer) * buffer[i] - sum)
         + SumSquares(buffer, sum, i + 1)

calculateVariance(buffer) ==
    IF Len(buffer) = 0 THEN 0
    ELSE LET n == Len(buffer)
             num == SumSquares(buffer, SumBytes(buffer, 1), 1)
             den == n * n * n
         IN  (num \div den) * Scale + ((num % den) * Scale) \div den

(***************************************************************************)
(* analyzeFile (lines 169-319), the part up to the registry lookup: the    *)
(* locals of lines 175-227.  random is the value Math.random() returns if  *)
(* line 225 is reached.                                                    *)
(***************************************************************************)
Clamp01(x) == MathMin(Scale, MathMax(0, x))

\* VisualScore without the ganIndicator of line 189
VisualScoreNoGan(category, length, s) ==
    IF category = "image"
    THEN LET compressionRatio == Quot(length, 1920 * 1080 * 3)
         IN  Clamp01(Plus(Times(s.headerAnomaly, 4000),
                          Times(Minus(Scale, compressionRatio), 1000)))
    ELSE IF category = "video"
    THEN Clamp01(Plus(Plus(Times(s.headerAnomaly, 5000),
                           IF Gt(s.entropy, 9700) THEN 2000 ELSE 0),
                      Times(s.uniformity, 1000)))
    ELSE 500

\* lines 185-202
VisualScore(category, length, s) ==
    IF category = "image"
    THEN LET compressionRatio == Quot(length, 1920 * 1080 * 3)
             ganIndicator == IF Gt(s.entropy, 9500) /\ Gt(s.uniformity, 7000)
                             THEN 3000 ELSE 0
         IN  Clamp01(Plus(Plus(ganIndicator, Times(s.headerAnomaly, 4000)),
                          Times(Minus(Scale, compressionRatio), 1000)))
    ELSE IF category = "video"
    THEN Clamp01(Plus(Plus(Times(s.headerAnomaly, 5000),
                           IF Gt(s.entropy, 9700) THEN 2000 ELSE 0),
                      Times(s.uniformity, 1000)))
    ELSE 500

\* lines 210-216, from the variance of line 209: <<audioScore, spectralAnomaly>>
AudioScoresOf(category, variance, s) ==
    IF category = "audio" \/ category = "video"
    THEN LET ttsIndicator == IF Lt(variance, 50 * Scale) THEN 3000 ELSE 0
             audioScore ==
                 Clamp01(Plus(Plus(ttsIndicator, Times(s.headerAnomaly, 3000)),
                              IF Gt(s.entropy, 9800) THEN 1500 ELSE 0))
             spectralAnomaly ==
                 Clamp01(Plus(Times(audioScore, 8000),
                              IF Gt(s.uniformity, 8000) THEN 2000 ELSE 0))
         IN  <<audioScore, spectralAnomaly>>
    ELSE <<500, 300>>

\* lines 205-216: <<audioScore, spectralAnomaly>>
AudioScores(category, buffer, s) ==
    AudioScoresOf(category,
                  calculateVariance(SubSeq(buffer, 1, Min(8192, Len(buffer)))), s)

\* SyncScore with Math.random() * 0.8 at line 225
SyncScoreWide(category, visualScore, audioScore, headerAnomaly, random) ==
    LET syncScore ==
            IF category = "video"
            THEN Minus(Scale, Plus(Plus(Times(visualScore, 3000),
                                        Times(audioScore, 3000)),
                                   Times(headerAnomaly, 2000)))
            ELSE Plus(9000, Times(random, 8000))
    IN  MathMax(0, MathMin(Scale, syncScore))

\* lines 219-227
SyncScore(category, visualScore, audioScore, headerAnomaly, random) ==
    LET syncScore ==
            IF category = "video"
            THEN Minus(Scale, Plus(Plus(Times(visualScore, 3000),
                                        Times(audioScore, 3000)),
                                   Times(headerAnomaly, 2000)))
            ELSE Plus(9000, Times(random, 800))
    IN  MathMax(0, MathMin(Scale, syncScore))

ModalityScoresOf(buffer, mimeType, random) ==
    LET category == getMediaCategory(mimeType)
        fileHash == computeHash(buffer)
        s == analyzeBuffer(buffer)
        visualScore == VisualScore(category, Len(buffer), s)
        a == AudioScores(category, buffer, s)
    IN  [category |-> category, fileHash |-> fileHash,
         hashSeed |-> hashSeedOf(fileHash),
         entropy |-> s.entropy, uniformity |-> s.uniformity,
         headerAnomaly |-> s.headerAnomaly,
         visualScore |-> visualScore, audioScore |-> a[1],
         spectralAnomaly |-> a[2],
         syncScore |-> SyncScore(category, visualScore, a[1], s.headerAnomaly, random)]

\* the locals of every call the model makes, tabulated once (merging with
\* the empty function makes TLC evaluate every entry when it builds the table
\* instead of at each application)
ModalityTable ==
    [buffer \in Buffers \cup Specimens, mimeType \in MimeTypes, random \in RandomDraws |->
        ModalityScoresOf(buffer, mimeType, random)] @@ <<>>

ModalityScores(buffer, mimeType, random) == ModalityTable[buffer, mimeType, random]

(***************************************************************************)
(* analyzeFile, the verdict (lines 229-273)                                *)
(***************************************************************************)
\* ProvenanceAdjustment with the two adjustments exchanged
ProvenanceAdjustmentSwapped(provenanceFound) ==
    IF provenanceFound THEN 1000 ELSE 0 - 1500

\* ProvenanceAdjustment with a registered hash raising the score
ProvenanceAdjustmentPenalty(provenanceFound) == IF provenanceFound THEN 2500 ELSE 1000

\* the last term of each branch of lines 234-239
ProvenanceAdjustment(provenanceFound) == IF provenanceFound THEN 0 - 1500 ELSE 1000

\* WeightedScore with the video branch taking syncScore for 1 - syncScore
WeightedScoreSyncDirect(m, provenanceFound) ==
    IF m.category = "video"
    THEN Plus(Plus(Plus(Times(m.visualScore, 3500), Times(m.audioScore, 3000)),
                   Times(m.syncScore, 2000)),
              ProvenanceAdjustment(provenanceFound))
    ELSE IF m.category = "audio"
    THEN Plus(Plus(Times(m.audioScore, 6000), Times(m.spectralAnomaly, 2500)),
              ProvenanceAdjustment(provenanceFound))
    ELSE Plus(Plus(Times(m.visualScore, 6000), Times(m.headerAnomaly, 2000)),
              ProvenanceAdjustment(provenanceFound))

\* lines 234-239
WeightedScore(m, provenanceFound) ==
    IF m.category = "video"
    THEN Plus(Plus(Plus(Times(m.visualScore, 3500), Times(m.audioScore, 3000)),
                   Times(Minus(Scale, m.syncScore), 2000)),
              ProvenanceAdjustment(provenanceFound))
    ELSE IF m.category = "audio"
    THEN Plus(Plus(Times(m.audioScore, 6000), Times(m.spectralAnomaly, 2500)),
              ProvenanceAdjustment(provenanceFound))
    ELSE Plus(Plus(Times(m.visualScore, 6000), Times(m.headerAnomaly, 2000)),
              ProvenanceAdjustment(provenanceFound))

\* Verdict with both thresholds inclusive
VerdictInclusive(weightedScore) ==
    IF ~IsNaN(weightedScore) /\ weightedScore <= 2500 THEN "authentic"
    ELSE IF ~IsNaN(weightedScore) /\ weightedScore >= 5000 THEN "manipulated"
    ELSE "suspicious"

\* the branch taken at lines 244-253
Verdict(weightedScore) ==
    IF Lt(weightedScore, 2500) THEN "authentic"
    ELSE IF Gt(weightedScore, 5000) THEN "manipulated"
    ELSE "suspicious"

\* Confidence without the clamp of line 254
ConfidenceUnclamped(weightedScore) ==
    IF Lt(weightedScore, 2500)
    THEN Plus(8500, Times(Minus(2500, weightedScore), 4000))
    ELSE IF Gt(weightedScore, 5000)
    THEN Plus(7000, Times(Minus(weightedScore, 5000), 5000))
    ELSE Plus(5000, Times(MathAbs(Minus(weightedScore, 3750)), 3000))

\* Confidence with the slope of the manipulated branch in the suspicious one
ConfidenceSteep(weightedScore) ==
    LET confidence ==
            IF Lt(weightedScore, 2500)
            THEN Plus(8500, Times(Minus(2500, weightedScore), 4000))
            ELSE IF Gt(weightedScore, 5000)
            THEN Plus(7000, Times(Minus(weightedScore, 5000), 5000))
            ELSE Plus(5000, Times(MathAbs(Minus(weightedScore, 3750)), 5000))
    IN  MathMin(9900, MathMax(4000, confidence))

\* lines 244-254
Confidence(weightedScore) ==
    LET confidence ==
            IF Lt(weightedScore, 2500)
            THEN Plus(8500, Times(Minus(2500, weightedScore), 4000))
            ELSE IF Gt(weightedScore, 5000)
            THEN Plus(7000, Times(Minus(weightedScore, 5000), 5000))
            ELSE Plus(5000, Times(MathAbs(Minus(weightedScore, 3750)), 3000))
    IN  MathMin(9900, MathMax(4000, confidence))

\* Artifacts without the test of the verdict at line 258
ArtifactsWhateverVerdict(verdict, m) ==
    (IF Gt(m.visualScore, 3000)
     THEN <<[region |-> "Facial region / Jawline",
             severity |-> MathMin(Scale, Times(m.visualScore, 12000))]>>
     ELSE <<>>)
    \o (IF Gt(m.visualScore, 4000)
        THEN <<[region |-> "Eye reflection consistency",
                severity |-> MathMin(Scale, Times(m.visualScore, 8000))]>>
        ELSE <<>>)
    \o (IF Gt(m.headerAnomaly, 4000)
        THEN <<[region |-> "File header / Metadata",
                severity |-> MathMin(Scale, m.headerAnomaly)]>>
        ELSE <<>>)
    \o (IF Gt(m.entropy, 9500)
        THEN <<[region |-> "Compression artifacts",
                severity |-> MathMin(Scale, Times(Minus(m.entropy, 9000), 5 * Scale))]>>
        ELSE <<>>)

\* Artifacts with the eye-reflection entry under the threshold of the
\* facial entry
ArtifactsOneThreshold(verdict, m) ==
    IF verdict # "authentic"
    THEN (IF Gt(m.visualScore, 3000)
          THEN <<[region |-> "Facial region / Jawline",
                  severity |-> MathMin(Scale, Times(m.visualScore, 12000))]>>
          ELSE <<>>)
         \o (IF Gt(m.visualScore, 3000)
             THEN <<[region |-> "Eye reflection consistency",
                     severity |-> MathMin(Scale, Times(m.visualScore, 8000))]>>
             ELSE <<>>)
         \o (IF Gt(m.headerAnomaly, 4000)
             THEN <<[region |-> "File header / Metadata",
                     severity |-> MathMin(Scale, m.headerAnomaly)]>>
             ELSE <<>>)
         \o (IF Gt(m.entropy, 9500)
             THEN <<[region |-> "Compression artifacts",
                     severity |-> MathMin(Scale, Times(Minus(m.entropy, 9000), 5 * Scale))]>>
             ELSE <<>>)
    ELSE <<>>

\* lines 257-273
Artifacts(verdict, m) ==
    IF verdict # "authentic"
    THEN (IF Gt(m.visualScore, 3000)
          THEN <<[region |-> "Facial region / Jawline",
                  severity |-> MathMin(Scale, Times(m.visualScore, 12000))]>>
          ELSE <<>>)
         \o (IF Gt(m.visualScore, 4000)
             THEN <<[region |-> "Eye reflection consistency",
                     severity |-> MathMin(Scale, Times(m.visualScore, 8000))]>>
             ELSE <<>>)
         \o (IF Gt(m.headerAnomaly, 4000)
             THEN <<[region |-> "File header / Metadata",
                     severity |-> MathMin(Scale, m.headerAnomaly)]>>
             ELSE <<>>)
         \o (IF Gt(m.entropy, 9500)
             THEN <<[region |-> "Compression artifacts",
                     severity |-> MathMin(Scale, Times(Minus(m.entropy, 9000), 5 * Scale))]>>
             ELSE <<>>)
    ELSE <<>>

(***************************************************************************)
(* The generators' random numbers (lines 93-97, 118-123, 143-148).         *)
(*                                                                         *)
(*     rng = (rng * 1103515245 + 12345) & 0x7fffffff                       *)
(*     return rng / 0x7fffffff                                             *)
(*                                                                         *)
(* rng is a double.  The product and the sum are each rounded to the       *)
(* nearest double (53 significant bits, ties to even); the bitwise AND     *)
(* keeps the low 31 bits of the rounded sum.  The numbers exceed the range *)
(* of a machine integer of the model, so they are kept as little-endian    *)
(* sequences of five limbs in base 2^15.                                   *)
(***************************************************************************)
Base == Pow2(15)

\* 1103515245 = 1 * 2^30 + 908 * 2^15 + 20077
Multiplier == <<20077, 908, 1>>

Increment == 12345

RECURSIVE Carry(_, _, _)
\* the limbs of the number whose i-th "digit" is cols[i], from position i
Carry(cols, i, carry) ==
    IF i > Len(cols) THEN <<>>
    ELSE <<(cols[i] + carry) % Base>>
         \o Carry(cols, i + 1, (cols[i] + carry) \div Base)

\* the limbs of the integer n >= 0
ToLimbs(n) == Carry(<<n, 0, 0, 0, 0>>, 1, 0)

\* the limbs of seed + offset, for seed = <<high 16 bits, low 16 bits>>
SeedLimbs(seed, offset) == Carry(<<seed[2] + offset, 2 * seed[1], 0, 0, 0>>, 1, 0)

\* r * 1103515245, exactly, for r < 2^34
BigTimes(r) ==
    Carry(<<r[1] * Multiplier[1],
            r[1] * Multiplier[2] + r[2] * Multiplier[1],
            r[1] * Multiplier[3] + r[2] * Multiplier[2] + r[3] * Multiplier[1],
            r[2] * Multiplier[3] + r[3] * Multiplier[2],
            r[3] * Multiplier[3]>>, 1, 0)

BigPlus(x, n) == Carry(<<x[1] + n, x[2], x[3], x[4], x[5]>>, 1, 0)

RECURSIVE BigBitLen(_, _)
\* number of binary digits of x, looking at limbs i, i-1, ..., 1
BigBitLen(x, i) ==
    IF i = 0 THEN 0
    ELSE IF x[i] # 0 THEN 15 * (i - 1) + BitLen(x[i])
    ELSE BigBitLen(x, i - 1)

\* x rounded to 53 significant bits, ties to even (x < 2^68, so that the
\* bits dropped all lie in the lowest limb)
Round53(x) ==
    LET k == BigBitLen(x, 5) - 53
    IN  IF k <= 0 THEN x
        ELSE LET unit == Pow2(k)
                 rest == x[1] % unit
                 odd == (x[1] \div unit) % 2 = 1
                 up == 2 * rest > unit \/ (2 * rest = unit /\ odd)
             IN  Carry(<<x[1] - rest + (IF up THEN unit ELSE 0),
                         x[2], x[3], x[4], x[5]>>, 1, 0)

\* the new value of rng (< 2^31) after one call of nextRandom, from the
\* limbs of the old one
NextRng(r) ==
    LET sum == Round53(BigPlus(Round53(BigTimes(r)), Increment))
    IN  sum[1] + Base * sum[2] + Base * Base * (sum[3] % 2)

\* rng / 0x7fffffff
Normalized(rng) == rng \div 214748

RECURSIVE Draws(_, _)
\* the values rng takes in n >= 1 successive calls of nextRandom, the first
\* half of the calls and then the rest
Draws(r, n) ==
    IF n = 1 THEN <<NextRng(r)>>
    ELSE LET first == Draws(r, n \div 2)
         IN  first \o Draws(ToLimbs(first[Len(first)]), n - n \div 2)

(***************************************************************************)
(* Math.sqrt, Math.sin and Math.floor in fixed point.                      *)
(***************************************************************************)
RECURSIVE IsqrtSearch(_, _, _)
\* the largest r in lo..hi with r * r <= n
IsqrtSearch(n, lo, hi) ==
    IF lo = hi THEN lo
    ELSE LET mid == (lo + hi + 1) \div 2
         IN  IF mid * mid <= n THEN IsqrtSearch(n, mid, hi)
             ELSE IsqrtSearch(n, lo, mid - 1)

\* Math.sqrt(n) for an integer 0 <= n <= 2000
MathSqrt(n) == 10 * IsqrtSearch(n * 1000000, 0, 46000)

\* sin y for 0 <= y <= pi / 2, by its Taylor series up to y^9
SinQuarter(y) ==
    LET y2 == (y * y) \div Scale
        t4 == Scale - y2 \div 72
        t3 == Scale - ((y2 * t4) \div Scale) \div 42
        t2 == Scale - ((y2 * t3) \div Scale) \div 20
        t1 == Scale - ((y2 * t2) \div Scale) \div 6
    IN  (y * t1) \div Scale

\* Math.sin(x) for x >= 0; pi = 3.1416
MathSin(x) ==
    IF IsNaN(x) THEN NaN
    ELSE LET y == x % 62832
             z == IF y >= 31416 THEN y - 31416 ELSE y
             q == IF z > 15708 THEN 31416 - z ELSE z
         IN  IF y >= 31416 THEN 0 - SinQuarter(q) ELSE SinQuarter(q)

\* Math.floor(x * n) for a fixed-point x >= 0 and an integer n
FloorTimes(x, n) == (x * n) \div Scale

(***************************************************************************)
(* generateHeatmap (lines 87-113)                                          *)
(***************************************************************************)
rows == 8

cols == 12

generateHeatmap(seed, manipulationLevel) ==
    LET d == Draws(SeedLimbs(seed, 0), 2 + rows * cols)
        cx == FloorTimes(Normalized(d[1]), cols)
        cy == FloorTimes(Normalized(d[2]), rows)
    IN  [i \in 1..rows |-> [j \in 1..cols |->
            LET dist == MathSqrt(((j - 1) - cx) * ((j - 1) - cx)
                                 + ((i - 1) - cy) * ((i - 1) - cy))
                base == Times(MathMax(0, Scale - dist \div 5), manipulationLevel)
            IN  MathMin(Scale,
                    Plus(base, Times(Normalized(d[2 + (i - 1) * cols + j]), 2000)))]]

(***************************************************************************)
(* generateWaveform (lines 115-136)                                        *)
(***************************************************************************)
points == 60

generateWaveform(seed, anomalyLevel) ==
    LET d == Draws(SeedLimbs(seed, 42), 2 + points)
        anomalyStart == FloorTimes(Normalized(d[1]), 20) + 20
        anomalyEnd == anomalyStart + FloorTimes(Normalized(d[2]), 8) + 4
    IN  [n \in 1..points |->
            LET i == n - 1
                base == Times(MathSin(i * 3000), 4000)
                noise == Times(Normalized(d[2 + n]) - 5000, 3000)
                spike == IF i > anomalyStart /\ i < anomalyEnd
                         THEN Times(anomalyLevel, 4000) ELSE 0
            IN  MathAbs(Plus(Plus(base, noise), spike))]

(***************************************************************************)
(* generateCorrelation (lines 138-167)                                     *)
(***************************************************************************)
generateCorrelation(seed, syncQuality) ==
    LET d == Draws(SeedLimbs(seed, 99), 1 + 2 * 30)
        desyncPoint == FloorTimes(Normalized(d[1]), 15) + 10
    IN  [n \in 1..30 |->
            LET t == n - 1
                visual == 5000 + Times(MathSin(t * 2000), 3000)
                          + Times(Normalized(d[2 * n]) - 5000, 1000)
                audioOffset == IF t > desyncPoint
                               THEN Times(Minus(Scale, syncQuality), 3000) ELSE 0
                audio == Plus(Plus(5000,
                                   Times(MathSin(Plus(t * 2000, audioOffset)), 3000)),
                              Times(Normalized(d[2 * n + 1]) - 5000, 1000))
            IN  [time |-> t,
                 visual |-> MathMax(0, MathMin(Scale, visual)),
                 audio |-> MathMax(0, MathMin(Scale, audio))]]

(***************************************************************************)
(* The state.                                                              *)
(*                                                                         *)
(* KNOWN_HASHES  the registry of line 47: a function from content hashes   *)
(*               to [uploader, timestamp]                                  *)
(* now           the wall clock (Date.now(), new Date()), in milliseconds  *)
(* ncalls        the number of analyzeFile calls made                      *)
(* last          <<>> or <<c>>, c the record of the latest call: its       *)
(*               arguments, the registry it started from, the locals of    *)
(*               the function body and the result it returned              *)
(* seen          <<>> or <<c>>, c the record of an earlier call that the   *)
(*               caller has kept                                           *)
(* weighted      a weighted score handed to the verdict step on its own    *)
(* fused         <<>> or <<[verdict, confidence]>>, what lines 241-254     *)
(*               make of weighted                                          *)
(* authentic     the content hashes classified authentic so far            *)
(* pc            for each caller, where its analyzeFile call stands        *)
(* frame         for each caller, <<>> or <<f>>, f the arguments and       *)
(*               locals of its call while the call is under way            *)
(* thread        the caller whose call holds the JavaScript thread, or 0   *)
(* serial        the registry that the calls returned so far produce when  *)
(*               they are run one after the other in the order of return   *)
(* linear        whether every call returned so far returned what it       *)
(*               returns in that sequential run                            *)
(* sample        the statistics of one input handed to the scoring of      *)
(*               lines 185-273, <<>> when none is                          *)
(* scored        <<>> or <<r>>, r what lines 185-273 compute from sample   *)
(* rng           the state of a generator's nextRandom, as limbs           *)
(* exact         the state the integer recurrence gives for the same seed  *)
(*               and the same number of calls, as limbs                    *)
(* drawn         the number of nextRandom calls made                       *)
(* bytes         a byte sequence handed to analyzeBuffer, as runs          *)
(* measured      <<>> or <<s>>, s what analyzeBuffer returns for bytes     *)
(* store         the rows of the table analyses, a function of their ids   *)
(* backend       <<>> or <<f>>, f the file the handler of the latest       *)
(*               request sent to the analysis backend                      *)
(* issued        the number of ids generateId has returned                 *)
(* response      <<>> or <<p>>, p the response to the latest request       *)
(* query         <<>> or <<q>>, q the parameters of a GET /api/history     *)
(*               request and, once it is handled, the limit and offset     *)
(*               its handler passed to getHistory                          *)
(* page          the state of the detect page: phase, result, analysisId,  *)
(*               fileName and errorMessage                                 *)
(* inflight      the files of the handleFileSelect calls that wait for     *)
(*               their response                                            *)
(***************************************************************************)
VARIABLES KNOWN_HASHES, now, ncalls, last, seen, authentic, weighted, fused,
          pc, frame, thread, serial, linear,
          sample, scored, rng, exact, drawn, bytes, measured,
          store, backend, issued, response, query, page, inflight

vars == <<KNOWN_HASHES, now, ncalls, last, seen, authentic, weighted, fused,
          pc, frame, thread, serial, linear,
          sample, scored, rng, exact, drawn, bytes, measured,
          store, backend, issued, response, query, page, inflight>>

scoreVars == <<sample, scored>>

rngVars == <<rng, exact, drawn>>

bytesVars == <<bytes, measured>>

apiVars == <<store, backend, issued, response>>

uiVars == <<query, page, inflight>>

auxVars == <<scoreVars, rngVars, bytesVars, apiVars, uiVars>>

concVars == <<pc, frame, thread, serial, linear>>

registryVars == <<KNOWN_HASHES, now, ncalls, last, seen, authentic>>

fusionVars == <<weighted, fused>>

Null == <<>>

Some(x) == <<x>>

\* new Map() (line 47)
EmptyRegistry == [h \in {} |-> Null]

\* KNOWN_HASHES.get(fileHash) (line 230): <<>> stands for undefined
MapGet(registry, fileHash) ==
    IF fileHash \in DOMAIN registry THEN Some(registry[fileHash]) ELSE Null

\* map.set(key, value)
MapSet(registry, key, value) ==
    [h \in DOMAIN registry \cup {key} |-> IF h = key THEN value ELSE registry[h]]

\* Register that empties the registry on a verdict other than authentic
RegisterOrClear(registry, verdict, fileHash, clock) ==
    IF verdict = "authentic"
    THEN MapSet(registry, fileHash,
                [uploader |-> "DeepTrust User", timestamp |-> clock])
    ELSE [h \in {} |-> Null]

\* Register that registers every sample not classified manipulated
RegisterUnlessManipulated(registry, verdict, fileHash, clock) ==
    IF verdict # "manipulated"
    THEN MapSet(registry, fileHash,
                [uploader |-> "DeepTrust User", timestamp |-> clock])
    ELSE registry

\* lines 284-290: the registry after the call
Register(registry, verdict, fileHash, clock) ==
    IF verdict = "authentic"
    THEN MapSet(registry, fileHash,
                [uploader |-> "DeepTrust User", timestamp |-> clock])
    ELSE registry

\* the value of explanations[verdict] (lines 276-280, 316): the template
\* chosen and the file name and category it interpolates
Explanation(verdict, fileName, category) ==
    [template |-> verdict, fileName |-> fileName, category |-> category]

(***************************************************************************)
(* The body of analyzeFile, run as the call number `call` from the         *)
(* registry `registry` with the clock reading startTime at line 174 and    *)
(* endTime from line 282 on: the record of the call.  The three arrays of  *)
(* the result are pure functions of (hashSeed, score); the record holds    *)
(* these arguments, and heatmapData, waveformData and correlationData      *)
(* below give the arrays.                                                  *)
(***************************************************************************)
\* lines 241-318, from the scores m, the entry knownEntry found at line 230
\* and the weighted score of lines 234-239
ResultOf(call, buffer, fileName, mimeType, registry, processingTime, m, knownEntry, weightedScore) ==
    LET provenanceFound == knownEntry # Null
        verdict == Verdict(weightedScore)
    IN  [call |-> call,
         buffer |-> buffer, fileName |-> fileName, mimeType |-> mimeType,
         registry |-> registry,
         fileHash |-> m.fileHash,
         entropy |-> m.entropy, uniformity |-> m.uniformity,
         headerAnomaly |-> m.headerAnomaly,
         weightedScore |-> weightedScore,
         result |->
           [verdict |-> verdict,
            confidence |-> Confidence(weightedScore),
            visual |-> [score |-> m.visualScore,
                        artifacts |-> Artifacts(verdict, m),
                        heatmapData |-> <<m.hashSeed, m.visualScore>>],
            audio |-> [score |-> m.audioScore,
                       spectralAnomaly |-> m.spectralAnomaly,
                       waveformData |-> <<m.hashSeed, m.audioScore>>],
            crossModal |-> [syncScore |-> m.syncScore,
                            correlationData |-> <<m.hashSeed, m.syncScore>>],
            blockchain |->
              [found |-> provenanceFound,
               hash |-> m.fileHash,
               originalUploader |->
                   IF provenanceFound THEN Some(knownEntry[1].uploader) ELSE Null,
               timestamp |->
                   IF provenanceFound THEN Some(knownEntry[1].timestamp) ELSE Null,
               chainValid |-> provenanceFound],
            explanation |-> Explanation(verdict, fileName, m.category),
            processingTime |-> IF processingTime > 200 THEN processingTime ELSE 200]]

\* Fusion with the lookup of line 230 made after the registration of lines
\* 285-290
FusionLookupAfter(call, buffer, fileName, mimeType, registry, processingTime, m) ==
    ResultOf(call, buffer, fileName, mimeType, registry, processingTime, m,
             MapGet(Register(registry,
                             Verdict(WeightedScore(m, MapGet(registry, m.fileHash) # Null)),
                             m.fileHash, 0),
                    m.fileHash),
             WeightedScore(m, MapGet(registry, m.fileHash) # Null))

\* lines 229-318, from the scores m of lines 175-227
Fusion(call, buffer, fileName, mimeType, registry, processingTime, m) ==
    ResultOf(call, buffer, fileName, mimeType, registry, processingTime, m,
             MapGet(registry, m.fileHash),
             WeightedScore(m, MapGet(registry, m.fileHash) # Null))

Body(call, buffer, fileName, mimeType, random, registry, startTime, endTime) ==
    Fusion(call, buffer, fileName, mimeType, registry, endTime - startTime,
           ModalityScores(buffer, mimeType, random))

heatmapData(c) ==
    generateHeatmap(c.result.visual.heatmapData[1], c.result.visual.heatmapData[2])

waveformData(c) ==
    generateWaveform(c.result.audio.waveformData[1], c.result.audio.waveformData[2])

correlationData(c) ==
    generateCorrelation(c.result.crossModal.correlationData[1],
                        c.result.crossModal.correlationData[2])

(***************************************************************************)
(* The operations.                                                         *)
(***************************************************************************)
Callers == 1..MaxCalls

\* no call under way
InitCalls ==
    /\ pc = [c \in Callers |-> "idle"]
    /\ frame = [c \in Callers |-> <<>>]
    /\ thread = 0
    /\ serial = EmptyRegistry
    /\ linear = TRUE

\* the table analyses as CREATE TABLE IF NOT EXISTS leaves it in a new
\* database (part_000 lines 21-34)
EmptyStore == [id \in {} |-> Null]

\* the state of the detect page as useState leaves it at the first render
\* (page.tsx lines 15-19), and as handleReset leaves it (lines 54-58); Null
\* stands for the null of result and for the empty string of analysisId
InitialPage ==
    [phase |-> "upload", result |-> Null, analysisId |-> Null, fileName |-> "",
     errorMessage |-> ""]

\* nothing handed to the scoring, to a generator, to analyzeBuffer or to a
\* route handler, and the detect page at its first render
InitAux ==
    /\ sample = <<>>
    /\ scored = <<>>
    /\ rng = <<>>
    /\ exact = <<>>
    /\ drawn = 0
    /\ bytes = <<>>
    /\ measured = <<>>
    /\ store = EmptyStore
    /\ backend = <<>>
    /\ issued = 0
    /\ response = <<>>
    /\ query = <<>>
    /\ page = InitialPage
    /\ inflight = <<>>

Init ==
    /\ KNOWN_HASHES = EmptyRegistry
    /\ now = 0
    /\ ncalls = 0
    /\ last = <<>>
    /\ seen = <<>>
    /\ authentic = {}
    /\ weighted = 0
    /\ fused = <<>>
    /\ InitCalls
    /\ InitAux

\* one call of analyzeFile: the function has no await, the call runs from
\* line 174 to line 318 without giving up the thread
analyzeFile(buffer, fileName, mimeType, random) ==
    /\ ncalls < MaxCalls
    /\ \E c \in {Body(ncalls + 1, buffer, fileName, mimeType, random,
                          KNOWN_HASHES, now, now)} :
           /\ KNOWN_HASHES' = Register(KNOWN_HASHES, c.result.verdict, c.fileHash, now)
           /\ last' = <<c>>
           /\ authentic' = IF c.result.verdict = "authentic"
                           THEN authentic \cup {c.fileHash} ELSE authentic
    /\ ncalls' = ncalls + 1
    /\ UNCHANGED <<now, seen, fusionVars, concVars, auxVars>>

\* the caller keeps the result of the latest call
Keep ==
    /\ last # <<>>
    /\ seen' = last
    /\ UNCHANGED <<KNOWN_HASHES, now, ncalls, last, authentic, fusionVars, concVars, auxVars>>

\* time passes
Tick ==
    /\ now < MaxTime
    /\ now' = now + 1
    /\ UNCHANGED <<KNOWN_HASHES, ncalls, last, seen, authentic, fusionVars, concVars, auxVars>>

Next ==
    \/ \E buffer \in Buffers, fileName \in FileNames, mimeType \in MimeTypes,
          random \in RandomDraws :
           analyzeFile(buffer, fileName, mimeType, random)
    \/ Keep
    \/ Tick

Spec == Init /\ [][Next]_vars

(***************************************************************************)
(* The verdict step on its own (lines 241-254): a function of the weighted *)
(* score alone.  SpecFusion draws the score from a grid around the two     *)
(* thresholds and applies the step.                                        *)
(***************************************************************************)
MaxGrid == 60      \* the grid of weighted scores has MaxGrid + 1 points

WeightedScores ==
    {250 * k - 2500 : k \in 0..MaxGrid} \cup {2499, 2501, 4999, 5001, NaN}

InitFusion ==
    /\ KNOWN_HASHES = EmptyRegistry
    /\ now = 0
    /\ ncalls = 0
    /\ last = <<>>
    /\ seen = <<>>
    /\ authentic = {}
    /\ weighted \in WeightedScores
    /\ fused = <<>>
    /\ InitCalls
    /\ InitAux

Fuse ==
    /\ fused = <<>>
    /\ fused' = <<[verdict |-> Verdict(weighted),
                   confidence |-> Confidence(weighted)]>>
    /\ UNCHANGED <<registryVars, weighted, concVars, auxVars>>

NextFusion == Fuse

SpecFusion == InitFusion /\ [][NextFusion]_vars

(***************************************************************************)
(* The scoring on its own (lines 185-273): a function of the statistics of *)
(* the buffer, of its length, of the variance of line 209, of the category,*)
(* of the value of Math.random() and of the outcome of the lookup.         *)
(* SpecScores draws these from the values a buffer can give and applies    *)
(* the scoring.  A sample holds                                            *)
(*                                                                         *)
(*   length        buffer.length                                           *)
(*   anomalyCount  the count of line 76-80 over the first 64 bytes         *)
(*   uniqueBytes   the count of line 71 over the first 4096 bytes          *)
(*   entropy       normalizedEntropy of line 67                            *)
(*   variance      the variance of line 209                                *)
(***************************************************************************)
MaxHeader == 4     \* the anomaly counts tried divide the header in MaxHeader parts

Lengths == {0, 1, 64, 10 * 1024}

UniqueCounts == {0, 1, 2, 179, 180, 204, 205, 256}

Entropies == {0, 1250, 9500, 9501, 9701, 9801, Scale}

Variances == {0, 50 * Scale - 1, 50 * Scale}

\* the counts of anomalous bytes tried for a header of n bytes
AnomalyCounts(n) == {(i * n) \div MaxHeader : i \in 0..MaxHeader}

\* whether some buffer has these statistics: the counts fit the windows, the
\* header's bytes are among the first 4096, a buffer of one value has entropy
\* and variance 0, and the entropy of d distinct values is at most log2(d)
Feasible(x) ==
    LET header == Min(64, x.length)
        block == Min(4096, x.length)
        distinct == IF x.length <= 4096 THEN x.uniqueBytes ELSE Min(256, x.length)
    IN  /\ x.anomalyCount \in AnomalyCounts(header)
        /\ x.uniqueBytes <= Min(256, block)
        /\ (x.uniqueBytes = 0) = (x.length = 0)
        /\ x.uniqueBytes <= Min(2, x.anomalyCount) + (block - x.anomalyCount)
        /\ (x.anomalyCount < header) => (x.uniqueBytes >= 1 + Min(1, x.anomalyCount))
        /\ (x.length <= 4096 /\ x.uniqueBytes <= 1) => (x.entropy = 0 /\ x.variance = 0)
        /\ (x.variance = 0) => (x.entropy = 0)
        /\ (x.entropy = 0) => (x.uniqueBytes <= 1)
        /\ (distinct >= 1) => (8 * x.entropy <= Log2Int(distinct) + 1)

Samples ==
    {x \in [mimeType : MimeTypes, length : Lengths, anomalyCount : 0..64,
            uniqueBytes : UniqueCounts, entropy : Entropies, variance : Variances,
            random : RandomDraws, provenanceFound : BOOLEAN] : Feasible(x)}

\* what analyzeBuffer returns for a buffer with the counts of sample x
StatisticsOf(x) ==
    [entropy |-> x.entropy,
     uniformity |-> Quot(x.uniqueBytes, 256),
     headerAnomaly |-> Quot(x.anomalyCount, Min(64, x.length))]

\* lines 185-273 for sample x
ScoresOf(x) ==
    LET category == getMediaCategory(x.mimeType)
        s == StatisticsOf(x)
    IN  \* bound once each, as the locals of the code are
        CHOOSE r \in
          UNION {UNION {UNION {
            {[m |-> m, weightedScore |-> w, verdict |-> Verdict(w),
              confidence |-> Confidence(w), artifacts |-> Artifacts(Verdict(w), m)] :
               w \in {WeightedScore(m, x.provenanceFound)}} :
            m \in {[category |-> category,
                    entropy |-> s.entropy, uniformity |-> s.uniformity,
                    headerAnomaly |-> s.headerAnomaly,
                    visualScore |-> v, audioScore |-> a[1], spectralAnomaly |-> a[2],
                    syncScore |-> SyncScore(category, v, a[1], s.headerAnomaly, x.random)]}} :
            a \in {AudioScoresOf(category, x.variance, s)}} :
            v \in {VisualScore(category, x.length, s)}} : TRUE

InitScores ==
    /\ KNOWN_HASHES = EmptyRegistry
    /\ now = 0
    /\ ncalls = 0
    /\ last = <<>>
    /\ seen = <<>>
    /\ authentic = {}
    /\ weighted = 0
    /\ fused = <<>>
    /\ InitCalls
    /\ sample \in {<<x>> : x \in Samples}
    /\ scored = <<>>
    /\ rng = <<>>
    /\ exact = <<>>
    /\ drawn = 0
    /\ bytes = <<>>
    /\ measured = <<>>
    /\ store = EmptyStore
    /\ backend = <<>>
    /\ issued = 0
    /\ response = <<>>
    /\ query = <<>>
    /\ page = InitialPage
    /\ inflight = <<>>

Score ==
    /\ scored = <<>>
    /\ scored' = <<ScoresOf(sample[1])>>
    /\ UNCHANGED <<registryVars, fusionVars, concVars, uiVars, sample, rngVars, bytesVars, apiVars>>

NextScores == Score

SpecScores == InitScores /\ [][NextScores]_vars

(***************************************************************************)
(* The route handlers and the table analyses.                              *)
(*                                                                         *)
(*   POST /api/analyze      src/app/api/analyze/route.ts                   *)
(*   POST /api/feedback     src/app/api/feedback/route.ts                  *)
(*   DELETE /api/history    src/unnamed/part_000 lines 141-169             *)
(*   the table              src/unnamed/part_000 lines 1-104               *)
(*                                                                         *)
(* The analysis backend is another process: for a file sent to it, it is   *)
(* not reached, or answers with an error and a detail text, or answers     *)
(* with a result.  Ids are the numbers generateId has returned, in the     *)
(* order of their return; 0 is an id it never returns.                     *)
(***************************************************************************)
MaxRecords == 2    \* analyses stored in one behaviour

Ids == 1..MaxRecords

\* the uploads: of an allowed type and size, of a type that is not allowed,
\* larger than MAX_FILE_SIZE
Files ==
    {[name |-> "clip", type |-> <<"image", "png">>, size |-> MAX_FILE_SIZE],
     [name |-> "clip", type |-> <<"application", "pdf">>, size |-> 1],
     [name |-> "clip", type |-> <<"video", "mp4">>, size |-> MAX_FILE_SIZE + 1]}

\* the detail texts of the backend's errors, and whether the text holds the
\* word fetch
Details == {"unsupported media", "could not fetch the model"}

IncludesFetch(message) == message = "could not fetch the model"

\* the result of the backend for a file it analysed
BackendResults == {[verdict |-> "authentic", confidence |-> 9300]}

\* what the backend does with one request
Outcomes ==
    {[kind |-> "unreachable"]}
    \cup {[kind |-> "error", detail |-> d] : d \in Details}
    \cup {[kind |-> "ok", result |-> r] : r \in BackendResults}

\* the JSON bodies of a feedback request: text that is not JSON, null, and
\* objects whose analysisId is absent, empty, a number or a string naming
\* an id, and whose feedback is absent or a string
AnalysisIds ==
    {[type |-> "undefined"], [type |-> "number", value |-> 1],
     [type |-> "string", value |-> 0 - 1]}
    \cup {[type |-> "string", value |-> id] : id \in {0} \cup Ids}

Bodies ==
    {[json |-> "malformed"], [json |-> "null"]}
    \cup {[json |-> "object", analysisId |-> a, feedback |-> f] :
             a \in AnalysisIds, f \in {"", "real", "fake", "maybe"}}

\* !analysisId || typeof analysisId !== "string" (feedback route line 9);
\* the string of value -1 stands for the empty string
InvalidAnalysisId(a) == a.type # "string" \/ a.value = 0 - 1

\* InvalidFeedback without the test of the label
InvalidFeedbackOnlyEmpty(f) == f = ""

\* !feedback || !["real", "fake"].includes(feedback) (line 16); "" stands
\* for an absent or empty feedback
InvalidFeedback(f) == f = "" \/ f \notin {"real", "fake"}

\* insertAnalysis (part_000 lines 52-69)
insertAnalysis(table, record) ==
    [id \in DOMAIN table \cup {record.id} |->
        IF id = record.id
        THEN [filename |-> record.filename, file_type |-> record.file_type,
              file_size |-> record.file_size, verdict |-> record.verdict,
              feedback |-> record.feedback]
        ELSE table[id]]

\* getAnalysis (lines 71-75)
getAnalysis(table, id) == IF id \in DOMAIN table THEN Some(table[id]) ELSE Null

\* updateFeedback (lines 77-82): <<the table, result.changes > 0>>
updateFeedback(table, id, feedback) ==
    IF id \in DOMAIN table
    THEN <<[table EXCEPT ![id].feedback = Some(feedback)], TRUE>>
    ELSE <<table, FALSE>>

\* deleteAnalysis without the WHERE of its statement
deleteAnalysisEvery(table, id) ==
    IF id \in DOMAIN table
    THEN <<[i \in {} |-> table[i]], TRUE>>
    ELSE <<table, FALSE>>

\* deleteAnalysis (lines 99-104): <<the table, result.changes > 0>>
deleteAnalysis(table, id) ==
    IF id \in DOMAIN table
    THEN <<[i \in DOMAIN table \ {id} |-> table[i]], TRUE>>
    ELSE <<table, FALSE>>

\* a response; analysisId and result are Null where the body has none
Response(route, status, error, analysisId, result) ==
    <<[route |-> route, status |-> status, error |-> error,
       analysisId |-> analysisId, result |-> result]>>

InitApi ==
    /\ KNOWN_HASHES = EmptyRegistry
    /\ now = 0
    /\ ncalls = 0
    /\ last = <<>>
    /\ seen = <<>>
    /\ authentic = {}
    /\ weighted = 0
    /\ fused = <<>>
    /\ InitCalls
    /\ InitAux

\* PostAnalyzeNoFile with generateId called before the test of line 14
PostAnalyzeNoFileIssuesId ==
    /\ issued < MaxRecords
    /\ response' = Response("analyze", 400, "No file provided", Null, Null)
    /\ backend' = <<>>
    /\ issued' = issued + 1
    /\ UNCHANGED <<registryVars, fusionVars, concVars, uiVars, scoreVars, rngVars, bytesVars,
                   store>>

\* POST /api/analyze without a file (route.ts lines 11-19)
PostAnalyzeNoFile ==
    /\ response' = Response("analyze", 400, "No file provided", Null, Null)
    /\ backend' = <<>>
    /\ UNCHANGED <<registryVars, fusionVars, concVars, uiVars, scoreVars, rngVars, bytesVars,
                   store, issued>>

\* PostAnalyze with the catch of lines 66-69 throwing the error again
PostAnalyzeDbFatal(file, outcome, dbFails) ==
    /\ outcome.kind = "ok" => issued < MaxRecords
    /\ dbFails => outcome.kind = "ok"
    /\ backend' = <<file>>
    /\ IF outcome.kind = "unreachable"
       THEN /\ response' = Response("analyze", 503, "Detection backend is not running",
                                    Null, Null)
            /\ UNCHANGED <<store, issued>>
       ELSE IF outcome.kind = "error"
       THEN /\ response' =
                 IF IncludesFetch(outcome.detail)
                 THEN Response("analyze", 503, "Detection backend is not running",
                               Null, Null)
                 ELSE Response("analyze", 500, outcome.detail, Null, Null)
            /\ UNCHANGED <<store, issued>>
       ELSE /\ issued' = issued + 1
            /\ store' =
                 IF dbFails THEN store
                 ELSE insertAnalysis(store,
                          [id |-> issued + 1, filename |-> file.name,
                           file_type |-> file.type, file_size |-> file.size,
                           verdict |-> outcome.result.verdict, feedback |-> Null])
            /\ response' =
                 IF dbFails
                 THEN Response("analyze", 500, "insertAnalysis failed", Null, Null)
                 ELSE Response("analyze", 200, "", Some(issued + 1), Some(outcome.result))
    /\ UNCHANGED <<registryVars, fusionVars, concVars, uiVars, scoreVars, rngVars, bytesVars>>

\* POST /api/analyze with a file (route.ts lines 11-82); dbFails tells
\* whether insertAnalysis, when it is called, throws
PostAnalyze(file, outcome, dbFails) ==
    /\ outcome.kind = "ok" => issued < MaxRecords
    /\ dbFails => outcome.kind = "ok"
    /\ backend' = <<file>>
    /\ IF outcome.kind = "unreachable"
       THEN /\ response' = Response("analyze", 503, "Detection backend is not running",
                                    Null, Null)
            /\ UNCHANGED <<store, issued>>
       ELSE IF outcome.kind = "error"
       THEN /\ response' =
                 IF IncludesFetch(outcome.detail)
                 THEN Response("analyze", 503, "Detection backend is not running",
                               Null, Null)
                 ELSE Response("analyze", 500, outcome.detail, Null, Null)
            /\ UNCHANGED <<store, issued>>
       ELSE /\ issued' = issued + 1
            /\ store' =
                 IF dbFails THEN store
                 ELSE insertAnalysis(store,
                          [id |-> issued + 1, filename |-> file.name,
                           file_type |-> file.type, file_size |-> file.size,
                           verdict |-> outcome.result.verdict, feedback |-> Null])
            /\ response' = Response("analyze", 200, "", Some(issued + 1),
                                    Some(outcome.result))
    /\ UNCHANGED <<registryVars, fusionVars, concVars, uiVars, scoreVars, rngVars, bytesVars>>

\* POST /api/feedback (feedback route lines 4-47)
PostFeedback(body) ==
    /\ IF body.json # "object"
       THEN \* request.json() or the destructuring of line 7 throws
            /\ response' = Response("feedback", 500, "Internal server error", Null, Null)
            /\ UNCHANGED store
       ELSE IF InvalidAnalysisId(body.analysisId)
       THEN /\ response' = Response("feedback", 400, "Missing or invalid analysisId",
                                    Null, Null)
            /\ UNCHANGED store
       ELSE IF InvalidFeedback(body.feedback)
       THEN /\ response' = Response("feedback", 400, "Feedback must be 'real' or 'fake'",
                                    Null, Null)
            /\ UNCHANGED store
       ELSE IF getAnalysis(store, body.analysisId.value) = Null
       THEN /\ response' = Response("feedback", 404, "Analysis not found", Null, Null)
            /\ UNCHANGED store
       ELSE \E u \in {updateFeedback(store, body.analysisId.value, body.feedback)} :
                /\ store' = u[1]
                /\ response' =
                     IF u[2]
                     THEN Response("feedback", 200, "", Some(body.analysisId.value), Null)
                     ELSE Response("feedback", 500, "Failed to save feedback", Null, Null)
    /\ backend' = <<>>
    /\ UNCHANGED <<registryVars, fusionVars, concVars, uiVars, scoreVars, rngVars, bytesVars,
                   issued>>

\* DELETE /api/history (part_000 lines 141-169); id 0 - 1 stands for a
\* request without the parameter id
DeleteHistory(id) ==
    /\ IF id = 0 - 1
       THEN /\ response' = Response("history", 400, "Missing analysis id", Null, Null)
            /\ UNCHANGED store
       ELSE \E d \in {deleteAnalysis(store, id)} :
                /\ store' = d[1]
                /\ response' =
                     IF d[2] THEN Response("history", 200, "", Null, Null)
                     ELSE Response("history", 404, "Analysis not found", Null, Null)
    /\ backend' = <<>>
    /\ UNCHANGED <<registryVars, fusionVars, concVars, uiVars, scoreVars, rngVars, bytesVars,
                   issued>>

NextApi ==
    \/ PostAnalyzeNoFile
    \/ \E file \in Files, outcome \in Outcomes, dbFails \in BOOLEAN :
           PostAnalyze(file, outcome, dbFails)
    \/ \E body \in Bodies : PostFeedback(body)
    \/ \E id \in {0 - 1, 0} \cup Ids : DeleteHistory(id)

SpecApi == InitApi /\ [][NextApi]_vars

(***************************************************************************)
(* nextRandom on its own (lines 94-97, 120-123, 145-148).  SpecRng seeds a *)
(* generator as line 93, 118 or 143 does, from the hash seed of a buffer   *)
(* or from one of the ends of the range of hash seeds, and calls           *)
(* nextRandom; beside the state of the code it keeps the state of the      *)
(* recurrence state' = (state * 1103515245 + 12345) mod 2^31 on integers.  *)
(***************************************************************************)
MaxDraws == 3      \* calls of nextRandom in one behaviour

\* the hash seeds: parseInt of 8 hexadecimal digits
HashSeeds ==
    {hashSeedOf(computeHash(b)) : b \in DOMAIN SHA256Prefix}
    \cup {<<0, 0>>, <<0, 1>>, <<65535, 65535>>}

\* seed + 0, seed + 42, seed + 99 (lines 93, 118, 143)
Offsets == {0, 42, 99}

\* (state * 1103515245 + 12345) mod 2^31 on integers, from the limbs of state
ExactNext(r) ==
    LET sum == BigPlus(BigTimes(r), Increment)
    IN  sum[1] + Base * sum[2] + Base * Base * (sum[3] % 2)

InitRng ==
    /\ KNOWN_HASHES = EmptyRegistry
    /\ now = 0
    /\ ncalls = 0
    /\ last = <<>>
    /\ seen = <<>>
    /\ authentic = {}
    /\ weighted = 0
    /\ fused = <<>>
    /\ InitCalls
    /\ sample = <<>>
    /\ scored = <<>>
    /\ \E seed \in HashSeeds, offset \in Offsets :
           /\ rng = SeedLimbs(seed, offset)
           /\ exact = SeedLimbs(seed, offset)
    /\ drawn = 0
    /\ bytes = <<>>
    /\ measured = <<>>
    /\ store = EmptyStore
    /\ backend = <<>>
    /\ issued = 0
    /\ response = <<>>
    /\ query = <<>>
    /\ page = InitialPage
    /\ inflight = <<>>

\* one call of nextRandom
nextRandom ==
    /\ drawn < MaxDraws
    /\ rng' = ToLimbs(NextRng(rng))
    /\ exact' = ToLimbs(ExactNext(exact))
    /\ drawn' = drawn + 1
    /\ UNCHANGED <<registryVars, fusionVars, concVars, uiVars, scoreVars, bytesVars, apiVars>>

NextRandom == nextRandom

SpecRng == InitRng /\ [][NextRandom]_vars

(***************************************************************************)
(* analyzeBuffer on its own (lines 49-85), on buffers that reach beyond    *)
(* its windows of 64 and 4096 bytes.  SpecBytes draws a buffer made of     *)
(* three runs, each a number of copies of one byte value, and applies      *)
(* analyzeBuffer to it.                                                    *)
(***************************************************************************)
MaxTail == 1       \* longest third run

\* the buffers: a first run that ends before, at or after the end of the
\* header, a second run that is absent or ends before or at byte 65 or
\* byte 4096, and a third run of up to MaxTail bytes
RunBuffers ==
    {[head |-> h,
      body |-> IF end > h.count THEN [value |-> v, count |-> end - h.count]
               ELSE [value |-> 1, count |-> 0],
      tail |-> IF n > 0 THEN [value |-> w, count |-> n] ELSE [value |-> 0, count |-> 0]] :
        h \in [value : {0, 1}, count : {1, 63, 64, 65}],
        v \in {1, 255}, end \in {0, 65, 4095, 4096},
        w \in {0, 2}, n \in 0..MaxTail}

\* the bytes of the buffer of runs d
Expand(d) ==
    [i \in 1..(d.head.count + d.body.count + d.tail.count) |->
        IF i <= d.head.count THEN d.head.value
        ELSE IF i <= d.head.count + d.body.count THEN d.body.value
        ELSE d.tail.value]

InitBytes ==
    /\ KNOWN_HASHES = EmptyRegistry
    /\ now = 0
    /\ ncalls = 0
    /\ last = <<>>
    /\ seen = <<>>
    /\ authentic = {}
    /\ weighted = 0
    /\ fused = <<>>
    /\ InitCalls
    /\ sample = <<>>
    /\ scored = <<>>
    /\ rng = <<>>
    /\ exact = <<>>
    /\ drawn = 0
    /\ bytes \in {<<d>> : d \in RunBuffers}
    /\ measured = <<>>
    /\ store = EmptyStore
    /\ backend = <<>>
    /\ issued = 0
    /\ response = <<>>
    /\ query = <<>>
    /\ page = InitialPage
    /\ inflight = <<>>

Measure ==
    /\ measured = <<>>
    /\ measured' = <<analyzeBuffer(Expand(bytes[1]))>>
    /\ UNCHANGED <<registryVars, fusionVars, concVars, uiVars, scoreVars, rngVars, bytes, apiVars>>

NextBytes == Measure

SpecBytes == InitBytes /\ [][NextBytes]_vars

(***************************************************************************)
(* Properties.                                                             *)
(***************************************************************************)
\* the kept call c and the latest call d are two calls, c the earlier one
Pair(c, d) == c.call < d.call

InRange(x, lo, hi) == ~IsNaN(x) /\ lo <= x /\ x <= hi

\* C1: once the registry holds an entry for a content hash, no later
\* analysis changes the uploader label or the timestamp of that entry.
C1_FirstRegistrationWins ==
    [][\A h \in DOMAIN KNOWN_HASHES :
           h \in DOMAIN KNOWN_HASHES' => KNOWN_HASHES'[h] = KNOWN_HASHES[h]]_vars

\* C2: when a call classified a byte sequence authentic, every later call on
\* the same bytes and MIME type (the next one in particular) reports
\* blockchain.found and computes a weighted score no greater than the first.
C2_ProvenanceRoundTrip ==
    (seen # <<>> /\ last # <<>>) =>
        LET c == seen[1]
            d == last[1]
        IN  (/\ Pair(c, d)
             /\ c.buffer = d.buffer
             /\ c.mimeType = d.mimeType
             /\ c.result.verdict = "authentic")
            => /\ d.result.blockchain.found
               /\ ~IsNaN(d.weightedScore)
               /\ d.weightedScore <= c.weightedScore

\* a first analysis that found nothing and said authentic, and a second
\* analysis of the same input that found the entry
C2_Witness ==
    /\ seen # <<>>
    /\ last # <<>>
    /\ Pair(seen[1], last[1])
    /\ seen[1].buffer = last[1].buffer
    /\ seen[1].mimeType = last[1].mimeType
    /\ seen[1].result.verdict = "authentic"
    /\ ~seen[1].result.blockchain.found
    /\ last[1].result.blockchain.found
    /\ last[1].weightedScore < seen[1].weightedScore

\* C3: two calls with the same bytes, file name and MIME type, started from
\* the same registry, yield the same byte statistics, the same modality
\* scores and the same heatmap, waveform and correlation arrays.
C3_Determinism ==
    (seen # <<>> /\ last # <<>>) =>
        LET c == seen[1]
            d == last[1]
        IN  (/\ Pair(c, d)
             /\ c.buffer = d.buffer
             /\ c.fileName = d.fileName
             /\ c.mimeType = d.mimeType
             /\ c.registry = d.registry)
            => /\ c.entropy = d.entropy
               /\ c.uniformity = d.uniformity
               /\ c.headerAnomaly = d.headerAnomaly
               /\ c.result.visual.score = d.result.visual.score
               /\ c.result.audio.score = d.result.audio.score
               /\ c.result.audio.spectralAnomaly = d.result.audio.spectralAnomaly
               /\ c.result.crossModal.syncScore = d.result.crossModal.syncScore
               /\ heatmapData(c) = heatmapData(d)
               /\ waveformData(c) = waveformData(d)
               /\ correlationData(c) = correlationData(d)

\* C4: every result has entropy, uniformity, headerAnomaly, the visual and
\* audio scores, spectralAnomaly and syncScore in [0, 1] and confidence in
\* [0.40, 0.99].
C4_Ranges ==
    last # <<>> =>
        LET c == last[1]
        IN  /\ InRange(c.entropy, 0, Scale)
            /\ InRange(c.uniformity, 0, Scale)
            /\ InRange(c.headerAnomaly, 0, Scale)
            /\ InRange(c.result.visual.score, 0, Scale)
            /\ InRange(c.result.audio.score, 0, Scale)
            /\ InRange(c.result.audio.spectralAnomaly, 0, Scale)
            /\ InRange(c.result.crossModal.syncScore, 0, Scale)
            /\ InRange(c.result.confidence, 4000, 9900)

\* C5: for the empty byte sequence entropy, uniformity and headerAnomaly are
\* 0, and the scores, the weighted score and the confidence of the result
\* are numbers (not NaN), in every category.
C5_EmptyInput ==
    (last # <<>> /\ last[1].buffer = <<>>) =>
        LET c == last[1]
        IN  /\ c.entropy = 0
            /\ c.uniformity = 0
            /\ c.headerAnomaly = 0
            /\ ~IsNaN(c.result.visual.score)
            /\ ~IsNaN(c.result.audio.score)
            /\ ~IsNaN(c.result.audio.spectralAnomaly)
            /\ ~IsNaN(c.result.crossModal.syncScore)
            /\ ~IsNaN(c.weightedScore)
            /\ ~IsNaN(c.result.confidence)

\* C6: the verdict is authentic exactly when the weighted score is below
\* 0.25, manipulated exactly when it is above 0.5 and suspicious otherwise;
\* the scores 0.25 and 0.5 themselves are suspicious.
C6_Classification ==
    fused # <<>> =>
        LET verdict == fused[1].verdict
            below == ~IsNaN(weighted) /\ weighted < 2500
            above == ~IsNaN(weighted) /\ weighted > 5000
        IN  /\ verdict \in {"authentic", "suspicious", "manipulated"}
            /\ verdict = "authentic" <=> below
            /\ verdict = "manipulated" <=> above
            /\ verdict = "suspicious" <=> (~below /\ ~above)
            /\ weighted \in {2500, 5000} => verdict = "suspicious"

\* the score 0.25 has been classified, as suspicious
C6_Witness ==
    /\ fused # <<>>
    /\ weighted = 2500
    /\ fused[1].verdict = "suspicious"

\* C8: the registry is empty at the start and no step removes a content
\* hash from it.
C8_RegistryGrows ==
    /\ KNOWN_HASHES = EmptyRegistry
    /\ [][DOMAIN KNOWN_HASHES \subseteq DOMAIN KNOWN_HASHES']_vars

\* a registered hash has survived a later analysis of another sample that
\* was not classified authentic
C8_Witness ==
    /\ last # <<>>
    /\ last[1].result.verdict # "authentic"
    /\ last[1].registry # EmptyRegistry
    /\ DOMAIN last[1].registry \subseteq DOMAIN KNOWN_HASHES

\* C9: a call whose verdict is not authentic leaves the registry as it was,
\* a call whose verdict is authentic leaves its content hash registered
\* under the label "DeepTrust User", and every registered hash is one that
\* an analysis classified authentic.
C9_RegistersOnlyAuthentic ==
    /\ [](DOMAIN KNOWN_HASHES \subseteq authentic)
    /\ [][ncalls' = ncalls + 1 =>
            LET d == last'[1]
            IN  /\ d.result.verdict # "authentic" =>
                       KNOWN_HASHES' = KNOWN_HASHES
                /\ d.result.verdict = "authentic" =>
                       /\ d.fileHash \in DOMAIN KNOWN_HASHES'
                       /\ KNOWN_HASHES'[d.fileHash].uploader = "DeepTrust User"]_vars

\* an authentic call has registered its hash after a call that was not
\* authentic left the registry empty
C9_Witness ==
    /\ seen # <<>>
    /\ last # <<>>
    /\ Pair(seen[1], last[1])
    /\ seen[1].result.verdict # "authentic"
    /\ last[1].registry = EmptyRegistry
    /\ last[1].result.verdict = "authentic"
    /\ DOMAIN KNOWN_HASHES = {last[1].fileHash}

\* C10: analysing the same bytes with the same MIME type again after the
\* registry has changed reproduces the heatmap, the waveform and the
\* correlation series.
C10_VisualizationIgnoresRegistry ==
    (seen # <<>> /\ last # <<>>) =>
        LET c == seen[1]
            d == last[1]
        IN  (/\ Pair(c, d)
             /\ c.buffer = d.buffer
             /\ c.mimeType = d.mimeType
             /\ c.registry # d.registry)
            => /\ heatmapData(c) = heatmapData(d)
               /\ waveformData(c) = waveformData(d)
               /\ correlationData(c) = correlationData(d)

(***************************************************************************)
(* Several callers, each asking for one analysis.  A call runs on the one  *)
(* JavaScript thread: it starts when the thread is free and keeps the      *)
(* thread until it returns or reaches an await.  Its body is taken in four *)
(* steps, at the places where it reads the clock or the registry:          *)
(*                                                                         *)
(*   "called"   -> "line230"   lines 174-227   (Date.now() of line 174)    *)
(*   "line230"  -> "line282"   lines 229-280   (KNOWN_HASHES.get)          *)
(*   "line282"  -> "line292"   lines 282-290   (Date.now(), .set)          *)
(*   "line292"  -> "done"      lines 292-318   (the result)                *)
(*                                                                         *)
(* The arguments of a call that has been asked for and has not started are *)
(* chosen when it starts: nothing reads them before.                       *)
(***************************************************************************)
\* AwaitPoints of a body that awaits between the lookup and the registration
AwaitPointsAfterLookup == {"line282"}

\* the places of the body of analyzeFile where it awaits: it has none
AwaitPoints == {}

\* the caller holding the thread after caller c has reached position p
Holder(c, p) == IF p \in AwaitPoints \cup {"done"} THEN 0 ELSE c

\* the record of the call of frame f, had it found the registry `registry`
FrameBody(f, registry) ==
    Body(f.call, f.buffer, f.fileName, f.mimeType, f.random, registry,
         f.startTime, f.endTime)

InitConc ==
    /\ KNOWN_HASHES = EmptyRegistry
    /\ now = 0
    /\ ncalls = 0
    /\ last = <<>>
    /\ seen = <<>>
    /\ authentic = {}
    /\ weighted = 0
    /\ fused = <<>>
    /\ InitCalls
    /\ InitAux

\* caller c asks for an analysis
Request(c) ==
    /\ pc[c] = "idle"
    /\ pc' = [pc EXCEPT ![c] = "called"]
    /\ ncalls' = ncalls + 1
    /\ UNCHANGED <<KNOWN_HASHES, now, last, seen, authentic, fusionVars, auxVars,
                   frame, thread, serial, linear>>

\* lines 174-227
Start(c, buffer, fileName, mimeType, random) ==
    /\ pc[c] = "called"
    /\ thread = 0
    /\ frame' = [frame EXCEPT ![c] =
                    <<[call |-> c, buffer |-> buffer, fileName |-> fileName,
                       mimeType |-> mimeType, random |-> random,
                       startTime |-> now, endTime |-> now,
                       registry |-> EmptyRegistry]>>]
    /\ pc' = [pc EXCEPT ![c] = "line230"]
    /\ thread' = Holder(c, "line230")
    /\ UNCHANGED <<registryVars, fusionVars, auxVars, serial, linear>>

\* lines 229-280: the lookup and the verdict
Lookup(c) ==
    /\ pc[c] = "line230"
    /\ thread \in {0, c}
    /\ frame' = [frame EXCEPT ![c] = <<[frame[c][1] EXCEPT !.registry = KNOWN_HASHES]>>]
    /\ pc' = [pc EXCEPT ![c] = "line282"]
    /\ thread' = Holder(c, "line282")
    /\ UNCHANGED <<registryVars, fusionVars, auxVars, serial, linear>>

\* lines 282-290: the registration
Registration(c) ==
    /\ pc[c] = "line282"
    /\ thread \in {0, c}
    /\ \E f \in {[frame[c][1] EXCEPT !.endTime = now]} :
           /\ frame' = [frame EXCEPT ![c] = <<f>>]
           /\ KNOWN_HASHES' =
                  Register(KNOWN_HASHES, FrameBody(f, f.registry).result.verdict,
                           computeHash(f.buffer), now)
    /\ pc' = [pc EXCEPT ![c] = "line292"]
    /\ thread' = Holder(c, "line292")
    /\ UNCHANGED <<now, ncalls, last, seen, authentic, fusionVars, auxVars, serial, linear>>

\* lines 292-318: the call returns.  The same call, run in turn after the
\* calls that returned before it, starts from the registry serial.
Return(c) ==
    /\ pc[c] = "line292"
    /\ thread \in {0, c}
    /\ \E f \in {frame[c][1]} :
       \E r \in {FrameBody(f, f.registry)} :
       \E t \in {FrameBody(f, serial)} :
           /\ linear' = (linear /\ r.result = t.result)
           /\ serial' = Register(serial, t.result.verdict, t.fileHash, f.endTime)
           /\ authentic' = IF r.result.verdict = "authentic"
                           THEN authentic \cup {r.fileHash} ELSE authentic
    /\ frame' = [frame EXCEPT ![c] = <<>>]
    /\ pc' = [pc EXCEPT ![c] = "done"]
    /\ thread' = Holder(c, "done")
    /\ UNCHANGED <<KNOWN_HASHES, now, ncalls, last, seen, fusionVars, auxVars>>

TickConc ==
    /\ now < MaxTime
    /\ now' = now + 1
    /\ UNCHANGED <<KNOWN_HASHES, ncalls, last, seen, authentic, fusionVars, concVars, auxVars>>

NextConc ==
    \/ \E c \in Callers : Request(c)
    \/ \E c \in Callers, buffer \in Buffers, fileName \in FileNames,
          mimeType \in MimeTypes, random \in RandomDraws :
           Start(c, buffer, fileName, mimeType, random)
    \/ \E c \in Callers : Lookup(c)
    \/ \E c \in Callers : Registration(c)
    \/ \E c \in Callers : Return(c)
    \/ TickConc

SpecConc == InitConc /\ [][NextConc]_vars

\* the calls that have read the clock of line 174 and have not returned
InBody == {c \in Callers : pc[c] \in {"line230", "line282", "line292"}}

\* C7: the lookup, the verdict and the registration of one call are never
\* interleaved with those of another call, every call returns what it
\* returns when the calls are run one after the other in the order in which
\* they returned, and when no call is under way the registry is the one
\* that sequential run leaves.
C7_Linearizable ==
    /\ Cardinality(InBody) <= 1
    /\ linear
    /\ InBody = {} => KNOWN_HASHES = serial

\* a call has looked its hash up and registered it while another call,
\* asked for before the first one returned, waits for the thread
C7_Witness ==
    \E c, d \in Callers :
        /\ pc[c] = "line292"
        /\ pc[d] = "called"
        /\ frame[c][1].registry = EmptyRegistry
        /\ computeHash(frame[c][1].buffer) \in DOMAIN KNOWN_HASHES

\* the product of a score and of a weight given in ten-thousandths
Weigh(score, weight) == (score * weight) \div Scale

\* C11: the weighted score is visual 0.35 + audio 0.3 + (1 - sync) 0.2 + adj
\* for video, audio 0.6 + spectralAnomaly 0.25 + adj for audio and
\* visual 0.6 + headerAnomaly 0.2 + adj for image and unknown, adj being
\* -0.15 when the lookup found an entry and +0.10 when it did not (and it is
\* undefined when one of the scores it is made of is).
C11_WeightedFusion ==
    scored # <<>> =>
        LET m == scored[1].m
            adj == IF sample[1].provenanceFound THEN 0 - 1500 ELSE 1000
            used == IF m.category = "video"
                    THEN {m.visualScore, m.audioScore, m.syncScore}
                    ELSE IF m.category = "audio"
                    THEN {m.audioScore, m.spectralAnomaly}
                    ELSE {m.visualScore, m.headerAnomaly}
            sum == IF m.category = "video"
                   THEN Weigh(m.visualScore, 3500) + Weigh(m.audioScore, 3000)
                        + Weigh(Scale - m.syncScore, 2000) + adj
                   ELSE IF m.category = "audio"
                   THEN Weigh(m.audioScore, 6000) + Weigh(m.spectralAnomaly, 2500) + adj
                   ELSE Weigh(m.visualScore, 6000) + Weigh(m.headerAnomaly, 2000) + adj
        IN  IF NaN \in used
            THEN IsNaN(scored[1].weightedScore)
            ELSE scored[1].weightedScore = sum

\* a video whose hash was found and whose sync score is below 1 has been
\* scored
C11_Witness ==
    /\ scored # <<>>
    /\ scored[1].m.category = "video"
    /\ sample[1].provenanceFound
    /\ ~IsNaN(scored[1].weightedScore)
    /\ scored[1].m.syncScore < Scale
    /\ scored[1].m.visualScore > 0

\* C12: for a weighted score w the confidence is 0.85 + (0.25 - w) 0.4 when
\* the verdict is authentic, 0.70 + (w - 0.5) 0.5 when it is manipulated and
\* 0.50 + |w - 0.375| 0.3 when it is suspicious, brought into [0.40, 0.99]
\* (an undefined weighted score leaves the confidence undefined).
C12_Confidence ==
    fused # <<>> =>
        LET w == weighted
            verdict == fused[1].verdict
            distance == IF w < 3750 THEN 3750 - w ELSE w - 3750
            raw == IF verdict = "authentic" THEN 8500 + Weigh(2500 - w, 4000)
                   ELSE IF verdict = "manipulated" THEN 7000 + Weigh(w - 5000, 5000)
                   ELSE 5000 + Weigh(distance, 3000)
            clamped == IF raw > 9900 THEN 9900 ELSE IF raw < 4000 THEN 4000 ELSE raw
        IN  IF IsNaN(w)
            THEN IsNaN(fused[1].confidence)
            ELSE fused[1].confidence = clamped

\* the upper clamp has acted on the lowest weighted score an analysis can
\* compute, 0 - 0.15
C12_Witness ==
    /\ fused # <<>>
    /\ weighted = 0 - 1500
    /\ fused[1].verdict = "authentic"
    /\ fused[1].confidence = 9900

\* C13: a result whose verdict is authentic has no artifacts, whatever its
\* visual score, header anomaly and entropy.
C13_AuthenticHasNoArtifacts ==
    (scored # <<>> /\ scored[1].verdict = "authentic") => scored[1].artifacts = <<>>

\* an authentic result whose entropy and visual score are above the
\* thresholds of the artifacts
C13_Witness ==
    /\ scored # <<>>
    /\ scored[1].verdict = "authentic"
    /\ scored[1].m.entropy > 9500
    /\ scored[1].m.visualScore > 3000
    /\ scored[1].artifacts = <<>>

\* the list of the one entry (region, severity) when on holds, else empty
Entry(on, region, severity) ==
    IF on THEN <<[region |-> region, severity |-> severity]>> ELSE <<>>

\* C14: a result that is not authentic lists, in this order, the facial
\* region iff visual > 0.3 (severity min(1, visual 1.2)), the eye reflection
\* iff visual > 0.4 (severity min(1, visual 0.8)), the file header iff
\* headerAnomaly > 0.4 (severity headerAnomaly) and the compression
\* artifacts iff entropy > 0.95 (severity min(1, (entropy - 0.9) 5)), and
\* nothing else; the entries are at most four and every severity is in [0, 1].
C14_ArtifactList ==
    (scored # <<>> /\ scored[1].verdict # "authentic") =>
        LET m == scored[1].m
            listed == scored[1].artifacts
        IN  /\ listed =
                 Entry(m.visualScore > 3000, "Facial region / Jawline",
                       Min(Scale, Weigh(m.visualScore, 12000)))
                 \o Entry(m.visualScore > 4000, "Eye reflection consistency",
                          Min(Scale, Weigh(m.visualScore, 8000)))
                 \o Entry(m.headerAnomaly > 4000, "File header / Metadata",
                          m.headerAnomaly)
                 \o Entry(m.entropy > 9500, "Compression artifacts",
                          Min(Scale, (m.entropy - 9000) * 5))
            /\ Len(listed) <= 4
            /\ \A i \in 1..Len(listed) : InRange(listed[i].severity, 0, Scale)

\* a result that is not authentic lists the facial region and not the eye
\* reflection: its visual score is above 0.3 and not above 0.4
C14_Witness ==
    /\ scored # <<>>
    /\ scored[1].verdict # "authentic"
    /\ scored[1].m.visualScore > 3000
    /\ scored[1].m.visualScore <= 4000
    /\ Len(scored[1].artifacts) >= 1
    /\ scored[1].artifacts[1].region = "Facial region / Jawline"
    /\ \A i \in 1..Len(scored[1].artifacts) :
           scored[1].artifacts[i].region # "Eye reflection consistency"

C17_SyncScore ==
    scored # <<>> =>
        LET m == scored[1].m
            raw == Scale - (Weigh(m.visualScore, 3000) + Weigh(m.audioScore, 3000)
                            + Weigh(m.headerAnomaly, 2000))
        IN  IF m.category = "video"
            THEN IF NaN \in {m.visualScore, m.audioScore, m.headerAnomaly}
                 THEN IsNaN(m.syncScore)
                 ELSE m.syncScore = (IF raw > Scale THEN Scale ELSE IF raw < 0 THEN 0 ELSE raw)
            ELSE InRange(m.syncScore, 9000, 9800)

\* a video with anomalous header bytes has been scored
C17_Witness ==
    /\ scored # <<>>
    /\ scored[1].m.category = "video"
    /\ ~IsNaN(scored[1].m.headerAnomaly)
    /\ scored[1].m.headerAnomaly > 0
    /\ scored[1].m.syncScore < Scale - 2000

\* the number of bytes of a run of count bytes after start bytes that lie
\* among the first window bytes
Overlap(start, count, window) ==
    IF start >= window THEN 0 ELSE Min(start + count, window) - start

\* C18: for a non-empty buffer of n bytes, uniformity is the number of
\* distinct values among the first min(4096, n) bytes over 256 and
\* headerAnomaly is the number of bytes 0x00 or 0xFF among the first
\* min(64, n) bytes over min(64, n); the buffer cut after 4096 bytes has the
\* same two statistics.
C18_Windows ==
    measured # <<>> =>
        LET d == bytes[1]
            n == d.head.count + d.body.count + d.tail.count
            runs == <<[at |-> 0, run |-> d.head],
                      [at |-> d.head.count, run |-> d.body],
                      [at |-> d.head.count + d.body.count, run |-> d.tail]>>
            distinct == {runs[k].run.value : k \in
                            {j \in 1..3 : Overlap(runs[j].at, runs[j].run.count,
                                                  Min(4096, n)) > 0}}
            anomalous == [k \in 1..3 |->
                            IF runs[k].run.value \in {0, 255}
                            THEN Overlap(runs[k].at, runs[k].run.count, Min(64, n))
                            ELSE 0]
            cut == analyzeBuffer(SubSeq(Expand(d), 1, Min(4096, n)))
        IN  /\ measured[1].uniformity = (Cardinality(distinct) * Scale) \div 256
            /\ measured[1].headerAnomaly =
                 ((anomalous[1] + anomalous[2] + anomalous[3]) * Scale) \div Min(64, n)
            /\ cut.uniformity = measured[1].uniformity
            /\ cut.headerAnomaly = measured[1].headerAnomaly

\* a buffer of 4097 bytes has been measured whose last byte is its only
\* byte of that value, and whose bytes after the header are anomalous while
\* those of the header are not
C18_Witness ==
    /\ measured # <<>>
    /\ bytes[1].head.count + bytes[1].body.count = 4096
    /\ bytes[1].tail = [value |-> 2, count |-> 1]
    /\ bytes[1].head = [value |-> 1, count |-> 64]
    /\ bytes[1].body.value = 255
    /\ measured[1].headerAnomaly = 0
    /\ measured[1].uniformity = (2 * Scale) \div 256

\* an image of 10,240 bytes whose entropy is above 0.95 and whose uniformity
\* is above 0.7, looked up in a registry without its hash
GanSample(x) ==
    /\ getMediaCategory(x.mimeType) = "image"
    /\ x.length = 10 * 1024
    /\ x.entropy > 9500
    /\ Quot(x.uniqueBytes, 256) > 7000
    /\ ~x.provenanceFound

\* C19: an image of 10,240 bytes that triggers the GAN indicator and whose
\* hash the registry does not hold is classified suspicious or manipulated,
\* whatever its header anomaly.
C19_GanImageNotAuthentic ==
    (scored # <<>> /\ GanSample(sample[1])) =>
        scored[1].verdict \in {"suspicious", "manipulated"}

\* such an image without an anomalous header byte has been classified
\* suspicious
C19_Witness ==
    /\ scored # <<>>
    /\ GanSample(sample[1])
    /\ sample[1].anomalyCount = 0
    /\ scored[1].verdict = "suspicious"

\* a feedback request whose analysisId is a string naming a stored record
\* and whose feedback is "real" or "fake"
Accepted(body) ==
    /\ body.json = "object"
    /\ body.analysisId.type = "string"
    /\ body.analysisId.value \in DOMAIN store
    /\ body.feedback \in {"real", "fake"}

\* every stored record's feedback is null, "real" or "fake"
FeedbackLabels ==
    \A id \in DOMAIN store : store[id].feedback \in {Null, Some("real"), Some("fake")}

\* C20: a POST /api/feedback request whose analysisId names a stored record
\* and whose feedback is "real" or "fake" sets the feedback of that record
\* and changes nothing else in the store; every other feedback request is
\* answered 400 or 404 and leaves the store as it was; so the feedback of
\* every record is always null, "real" or "fake".
C20_FeedbackFrame ==
    /\ []FeedbackLabels
    /\ [][\A body \in Bodies :
            (response'[1].route = "feedback" /\ PostFeedback(body)) =>
                IF Accepted(body)
                THEN /\ store' = [store EXCEPT ![body.analysisId.value].feedback =
                                                  Some(body.feedback)]
                     /\ response'[1].status = 200
                ELSE /\ store' = store
                     /\ response'[1].status \in {400, 404}]_vars

\* C20, with the answer to a body that is not a JSON object: a POST
\* /api/feedback request whose analysisId names a stored record and whose
\* feedback is "real" or "fake" sets the feedback of that record and changes
\* nothing else in the store; every other feedback request leaves the store
\* as it was and is answered 500 when its body is not a JSON object (it is
\* not JSON, or it is null) and 400 or 404 when it is one; so the feedback of
\* every record is always null, "real" or "fake".
C20_FeedbackFrameAmended ==
    /\ []FeedbackLabels
    /\ [][\A body \in Bodies :
            (response'[1].route = "feedback" /\ PostFeedback(body)) =>
                IF Accepted(body)
                THEN /\ store' = [store EXCEPT ![body.analysisId.value].feedback =
                                                  Some(body.feedback)]
                     /\ response'[1].status = 200
                ELSE /\ store' = store
                     /\ response'[1].status =
                          IF body.json # "object" THEN 500
                          ELSE IF InvalidAnalysisId(body.analysisId)
                                  \/ body.feedback \notin {"real", "fake"}
                          THEN 400 ELSE 404]_vars

\* a feedback request has set the label of one of two stored records and
\* the other has none
C20_Witness ==
    /\ response # <<>>
    /\ response[1].route = "feedback"
    /\ response[1].status = 200
    /\ \E id, other \in DOMAIN store :
           /\ response[1].analysisId = Some(id)
           /\ store[id].feedback = Some("fake")
           /\ other # id
           /\ store[other].feedback = Null

(***************************************************************************)
(* Repeated analyses.  SpecRepeat runs analyzeFile up to MaxRepeats times  *)
(* on a few byte sequences of one and two bytes, under every MIME type, so *)
(* that a sample is analysed, other analyses follow, and the sample is     *)
(* analysed again.  The caller keeps an earlier result in seen.  The clock *)
(* enters only the timestamp of a registry entry (line 288) and the        *)
(* processing time (line 282), neither of which a verdict reads: the       *)
(* behaviours of SpecRepeat are those in which it reads 0 throughout.      *)
(***************************************************************************)
MaxRepeats == 3    \* calls of analyzeFile in one behaviour of SpecRepeat

InitRepeat ==
    /\ KNOWN_HASHES = EmptyRegistry
    /\ now = 0
    /\ ncalls = 0
    /\ last = <<>>
    /\ seen = <<>>
    /\ authentic = {}
    /\ weighted = 0
    /\ fused = <<>>
    /\ InitCalls
    /\ InitAux

\* one call of analyzeFile (lines 169-319) on one of the specimens
analyzeSpecimen(buffer, fileName, mimeType, random) ==
    /\ ncalls < MaxRepeats
    /\ \E c \in {Body(ncalls + 1, buffer, fileName, mimeType, random,
                          KNOWN_HASHES, now, now)} :
           /\ KNOWN_HASHES' = Register(KNOWN_HASHES, c.result.verdict, c.fileHash, now)
           /\ last' = <<c>>
           /\ authentic' = IF c.result.verdict = "authentic"
                           THEN authentic \cup {c.fileHash} ELSE authentic
    /\ ncalls' = ncalls + 1
    /\ UNCHANGED <<now, seen, fusionVars, concVars, auxVars>>

NextRepeat ==
    \/ \E buffer \in Specimens, fileName \in FileNames, mimeType \in MimeTypes,
          random \in RandomDraws :
           analyzeSpecimen(buffer, fileName, mimeType, random)
    \/ Keep

SpecRepeat == InitRepeat /\ [][NextRepeat]_vars

\* the kept call c and the latest call d are two analyses of the same bytes
\* declared with the same MIME type, c the earlier one
Repeat(c, d) == Pair(c, d) /\ c.buffer = d.buffer /\ c.mimeType = d.mimeType

\* C21: once a sample has been classified authentic, every later analysis
\* of the same bytes with the same MIME type classifies it authentic too,
\* whatever analyses happened in between.
C21_AuthenticStays ==
    (seen # <<>> /\ last # <<>>) =>
        ((Repeat(seen[1], last[1]) /\ seen[1].result.verdict = "authentic")
            => last[1].result.verdict = "authentic")

\* a sample was classified authentic, another sample was analysed and was
\* not, and the first sample was analysed again and classified authentic
C21_Witness ==
    /\ seen # <<>>
    /\ last # <<>>
    /\ Repeat(seen[1], last[1])
    /\ seen[1].call = 1
    /\ last[1].call = 3
    /\ seen[1].result.verdict = "authentic"
    /\ last[1].result.verdict = "authentic"
    /\ last[1].result.blockchain.found
    /\ DOMAIN KNOWN_HASHES = {last[1].fileHash}

\* C22: a sample classified suspicious or manipulated gets the same verdict
\* from every later analysis of the same bytes with the same MIME type,
\* whatever analyses happened in between, those of the same bytes under
\* another MIME type included.
C22_NonAuthenticStays ==
    (seen # <<>> /\ last # <<>>) =>
        ((Repeat(seen[1], last[1]) /\ seen[1].result.verdict # "authentic")
            => last[1].result.verdict = seen[1].result.verdict)

\* C23: in every result, found and chainValid are equal, originalUploader
\* and timestamp are non-null exactly when found is true, and found tells
\* whether the registry held the content hash before the call; what the
\* result reports is the entry of that registry, also when the call itself
\* registers the hash.
C23_Provenance ==
    last # <<>> =>
        LET c == last[1]
            b == c.result.blockchain
        IN  /\ b.found = b.chainValid
            /\ (b.originalUploader # Null) <=> b.found
            /\ (b.timestamp # Null) <=> b.found
            /\ b.found <=> c.fileHash \in DOMAIN c.registry
            /\ b.found =>
                   /\ b.originalUploader = Some(c.registry[c.fileHash].uploader)
                   /\ b.timestamp = Some(c.registry[c.fileHash].timestamp)

\* the first analysis of a sample has registered its hash and reports that
\* the hash was not found
C23_Witness ==
    /\ last # <<>>
    /\ last[1].registry = EmptyRegistry
    /\ last[1].result.verdict = "authentic"
    /\ last[1].fileHash \in DOMAIN KNOWN_HASHES
    /\ ~last[1].result.blockchain.found
    /\ last[1].result.blockchain.originalUploader = Null
    /\ last[1].result.blockchain.timestamp = Null

C25_InsertAfterSuccess ==
    [][/\ (response'[1].route = "analyze" /\ response'[1].status \in {400, 503, 500})
            => store' = store
       /\ (response'[1].route = "analyze" /\ response'[1].status = 400)
            => (backend' = <<>> /\ issued' = issued)
       /\ (DOMAIN store' \ DOMAIN store # {})
            => /\ response'[1].route = "analyze"
               /\ response'[1].status = 200
               /\ backend' # <<>>]_vars

\* a request whose file the backend refused has been answered 500 with
\* the detail of the backend, and the table holds the row of an earlier
\* request
C25_Witness ==
    /\ response # <<>>
    /\ response[1].route = "analyze"
    /\ response[1].status = 500
    /\ response[1].error = "unsupported media"
    /\ backend # <<>>
    /\ issued = 1
    /\ DOMAIN store = {1}

\* C26: when the backend answered with a result and insertAnalysis throws,
\* POST /api/analyze answers 200 with the identifier generateId returned
\* and the result of the backend, and the table is as it was.
C26_StoreFailureNotFatal ==
    [][\A file \in Files, outcome \in Outcomes :
           (outcome.kind = "ok" /\ response'[1].route = "analyze"
               /\ PostAnalyze(file, outcome, TRUE))
           => /\ response'[1].status = 200
              /\ response'[1].analysisId = Some(issued + 1)
              /\ response'[1].result = Some(outcome.result)
              /\ store' = store]_vars

\* a request has been answered 200 with an identifier and a result, and the
\* table holds no row of that identifier
C26_Witness ==
    /\ response # <<>>
    /\ response[1].route = "analyze"
    /\ response[1].status = 200
    /\ response[1].analysisId = Some(issued)
    /\ response[1].result # Null
    /\ issued \notin DOMAIN store

\* C27: when the backend was reached and answered with an error, POST
\* /api/analyze answers 500 with the detail text of that error, whatever the
\* text.
C27_BackendErrorIs500 ==
    [][\A file \in Files, outcome \in Outcomes :
           (outcome.kind = "error" /\ response'[1].route = "analyze"
               /\ PostAnalyze(file, outcome, FALSE))
           => /\ response'[1].status = 500
              /\ response'[1].error = outcome.detail]_vars

(***************************************************************************)
(* GET /api/history (src/unnamed/part_000 lines 109-139) and getHistory    *)
(* (lines 84-90).  A parameter of the query string is absent or is a text, *)
(* here a sequence of the characters "-", "0", "5" and "a" of at most      *)
(* MaxQuery characters.  SpecHistory draws the two parameters of a request *)
(* and the table, and handles the request.                                 *)
(***************************************************************************)
MaxQuery == 3      \* characters of a parameter of the query string

Characters == {"-", "0", "5", "a"}

Texts == UNION {[1..n -> Characters] : n \in 0..MaxQuery}

\* what searchParams.get returns: null for an absent parameter, else its text
Parameters == {[present |-> FALSE]} \cup {[present |-> TRUE, text |-> t] : t \in Texts}

DigitValue(c) == IF c = "5" THEN 5 ELSE 0

\* the number that the digits of text from position i on spell, after acc
RECURSIVE Digits(_, _, _)
Digits(text, i, acc) ==
    IF i > Len(text) \/ text[i] \notin {"0", "5"} THEN acc
    ELSE Digits(text, i + 1, 10 * acc + DigitValue(text[i]))

\* parseInt(text): an optional sign and the longest run of digits after
\* it, NaN when there is no digit
parseInt(text) ==
    LET negative == Len(text) > 0 /\ text[1] = "-"
        first == IF negative THEN 2 ELSE 1
    IN  IF first > Len(text) \/ text[first] \notin {"0", "5"} THEN NaN
        ELSE IF negative THEN 0 - Digits(text, first, 0)
        ELSE Digits(text, first, 0)

\* searchParams.get(name) || fallback (lines 112, 113): null and the empty
\* text are falsy
OrDefault(parameter, fallback) ==
    IF parameter.present /\ parameter.text # <<>> THEN parameter.text ELSE fallback

\* line 112
LimitOf(parameter) ==
    MathMin(100, MathMax(1, parseInt(OrDefault(parameter, <<"5", "0">>))))

\* line 113
OffsetOf(parameter) == MathMax(0, parseInt(OrDefault(parameter, <<"0">>)))

\* the ids of the rows of the table, the latest first (ORDER BY created_at
\* DESC, line 87; ids are numbered in the order of their creation)
RECURSIVE Latest(_)
Latest(ids) ==
    IF ids = {} THEN <<>>
    ELSE LET top == CHOOSE i \in ids : \A j \in ids : j <= i
         IN  <<top>> \o Latest(ids \ {top})

\* getHistory (lines 84-90) for a limit and an offset that are numbers: the
\* ids of the rows selected
getHistory(table, limit, offset) ==
    SubSeq(Latest(DOMAIN table), offset + 1, Min(offset + limit, Cardinality(DOMAIN table)))

\* getHistoryCount (lines 92-97)
getHistoryCount(table) == Cardinality(DOMAIN table)

\* the tables the requests are made on: of no row, and of the rows 1..n
Tables ==
    {[id \in 1..n |-> [filename |-> "clip", file_type |-> <<"image", "png">>,
                       file_size |-> 1, verdict |-> "authentic", feedback |-> Null]] :
        n \in 0..MaxRecords}

InitHistory ==
    /\ KNOWN_HASHES = EmptyRegistry
    /\ now = 0
    /\ ncalls = 0
    /\ last = <<>>
    /\ seen = <<>>
    /\ authentic = {}
    /\ weighted = 0
    /\ fused = <<>>
    /\ InitCalls
    /\ sample = <<>>
    /\ scored = <<>>
    /\ rng = <<>>
    /\ exact = <<>>
    /\ drawn = 0
    /\ bytes = <<>>
    /\ measured = <<>>
    /\ store \in Tables
    /\ backend = <<>>
    /\ issued = Cardinality(DOMAIN store)
    /\ response = <<>>
    /\ query \in {<<[limitParameter |-> l, offsetParameter |-> o, passed |-> <<>>]>> :
                     l \in Parameters, o \in Parameters}
    /\ page = InitialPage
    /\ inflight = <<>>

\* GET /api/history (lines 109-139).  SQLite refuses a LIMIT or an OFFSET
\* that is not an integer (NaN is bound as NULL): stmt.all throws and the
\* handler answers 500 (lines 132-137)
GetHistory ==
    /\ query # <<>>
    /\ query[1].passed = <<>>
    /\ \E limit \in {LimitOf(query[1].limitParameter)},
          offset \in {OffsetOf(query[1].offsetParameter)} :
           /\ query' = <<[query[1] EXCEPT !.passed = <<[limit |-> limit, offset |-> offset]>>]>>
           /\ response' =
                IF IsNaN(limit) \/ IsNaN(offset)
                THEN Response("history", 500, "Internal server error", Null, Null)
                ELSE Response("history", 200, "", Null,
                              Some([items |-> getHistory(store, limit, offset),
                                    total |-> getHistoryCount(store),
                                    limit |-> limit, offset |-> offset]))
    /\ backend' = <<>>
    /\ UNCHANGED <<registryVars, fusionVars, concVars, scoreVars, rngVars, bytesVars,
                   store, issued, page, inflight>>

NextHistory == GetHistory

SpecHistory == InitHistory /\ [][NextHistory]_vars

\* the request has been handled
Handled == query # <<>> /\ query[1].passed # <<>>

\* C28: GET /api/history passes getHistory a limit between 1 and 100 and an
\* offset of at least 0, whatever the parameters limit and offset of the
\* request are.
C28_QueryBounds ==
    Handled =>
        /\ InRange(query[1].passed[1].limit, 1, 100)
        /\ ~IsNaN(query[1].passed[1].offset)
        /\ query[1].passed[1].offset >= 0

(***************************************************************************)
(* The detect page (src/app/detect/page.tsx).  handleFileSelect runs up to *)
(* the await of line 30, the request is handled by POST /api/analyze or    *)
(* fetch rejects, and handleFileSelect resumes at line 35 with the         *)
(* response.  While a request of the page waits, response is <<>>; a       *)
(* rejected fetch is kept there as a response of status 0.                 *)
(***************************************************************************)
MaxInflight == 2   \* calls of handleFileSelect that wait at a time

\* UploadZoneShown with the upload zone rendered in every phase
UploadZoneShownAlways(phase) == phase \in {"upload", "analyzing", "results", "error"}

\* the page renders UploadZone, whose events call handleFileSelect, in the
\* phase upload only (lines 65, 77)
UploadZoneShown(phase) == phase = "upload"

\* the page renders a button that calls handleReset in the phase results
\* when there is a result (lines 143-149) and in the phase error (lines
\* 152-170)
ResetShown(p) == (p.phase = "results" /\ p.result # Null) \/ p.phase = "error"

InitPage ==
    /\ KNOWN_HASHES = EmptyRegistry
    /\ now = 0
    /\ ncalls = 0
    /\ last = <<>>
    /\ seen = <<>>
    /\ authentic = {}
    /\ weighted = 0
    /\ fused = <<>>
    /\ InitCalls
    /\ InitAux

\* handleFileSelect, lines 21-33: up to the await of fetch
handleFileSelect(file) ==
    /\ UploadZoneShown(page.phase)
    /\ Len(inflight) < MaxInflight
    /\ page' = [page EXCEPT !.fileName = file.name, !.phase = "analyzing",
                            !.errorMessage = ""]
    /\ inflight' = Append(inflight, file)
    /\ response' = <<>>
    /\ UNCHANGED <<registryVars, fusionVars, concVars, scoreVars, rngVars, bytesVars,
                   store, backend, issued, query>>

\* the request of the page is handled by POST /api/analyze
Serve(outcome, dbFails) ==
    /\ inflight # <<>>
    /\ response = <<>>
    /\ PostAnalyze(Head(inflight), outcome, dbFails)

\* fetch rejects: the request of the page reaches no server
FetchRejects ==
    /\ inflight # <<>>
    /\ response = <<>>
    /\ response' = Response("analyze", 0, "Failed to fetch", Null, Null)
    /\ UNCHANGED <<registryVars, fusionVars, concVars, scoreVars, rngVars, bytesVars,
                   store, backend, issued, uiVars>>

\* handleFileSelect, lines 35-50: from the response on
handleResponse ==
    /\ inflight # <<>>
    /\ response # <<>>
    /\ page' =
         IF response[1].status = 200
         THEN [page EXCEPT !.result = response[1].result,
                           !.analysisId = response[1].analysisId,
                           !.phase = "results"]
         ELSE [page EXCEPT !.errorMessage = IF response[1].error = ""
                                            THEN "Analysis failed"
                                            ELSE response[1].error,
                           !.phase = "error"]
    /\ inflight' = Tail(inflight)
    /\ UNCHANGED <<registryVars, fusionVars, concVars, scoreVars, rngVars, bytesVars,
                   apiVars, query>>

\* handleReset (lines 53-59)
handleReset ==
    /\ ResetShown(page)
    /\ page' = [phase |-> "upload", result |-> Null, analysisId |-> Null,
                fileName |-> "", errorMessage |-> ""]
    /\ UNCHANGED <<registryVars, fusionVars, concVars, scoreVars, rngVars, bytesVars,
                   apiVars, query, inflight>>

NextPage ==
    \/ \E file \in Files : handleFileSelect(file)
    \/ \E outcome \in Outcomes, dbFails \in BOOLEAN : Serve(outcome, dbFails)
    \/ FetchRejects
    \/ handleResponse
    \/ handleReset

SpecPage == InitPage /\ [][NextPage]_vars

\* C29: at most one request of the detect page waits at a time, and one
\* waits exactly in the phase analyzing; the page leaves analyzing for
\* results, after a response of status 200 and with the result and the
\* analysisId of that response, or for error, with a message that is not
\* empty; and it comes back to upload only with result, analysisId,
\* fileName and errorMessage cleared.
C29_OneRequestTwoEndings ==
    /\ [](Len(inflight) <= 1)
    /\ []((page.phase = "analyzing") <=> (inflight # <<>>))
    /\ [][(page.phase = "analyzing" /\ page'.phase # "analyzing") =>
            \/ /\ page'.phase = "results"
               /\ response # <<>>
               /\ response[1].status = 200
               /\ page'.result = response[1].result
               /\ page'.result # Null
               /\ page'.analysisId = response[1].analysisId
            \/ /\ page'.phase = "error"
               /\ page'.errorMessage # ""]_vars
    /\ [][(page.phase # "analyzing" /\ page'.phase # page.phase) =>
            \/ page.phase = "upload" /\ page'.phase = "analyzing"
            \/ /\ page'.phase = "upload"
               /\ page'.result = Null
               /\ page'.analysisId = Null
               /\ page'.fileName = ""
               /\ page'.errorMessage = ""]_vars

\* after a first request and a reset, a second request has ended in
\* results with the identifier of the second stored analysis
C29_Witness ==
    /\ page.phase = "results"
    /\ page.result # Null
    /\ page.analysisId = Some(2)
    /\ page.errorMessage = ""
    /\ inflight = <<>>
    /\ issued = 2
    /\ DOMAIN store = {1, 2}

(***************************************************************************)
(* Deletion of history records, under SpecApi.                             *)
(***************************************************************************)
\* generateId has returned id and no record has it: the record is deleted,
\* or it could not be stored
Gone(id) == id \in 1..issued /\ id \notin DOMAIN store

\* the bodies of the feedback requests that name id
Naming(id) ==
    {body \in Bodies : /\ body.json = "object"
                       /\ body.analysisId.type = "string"
                       /\ body.analysisId.value = id}

\* DELETE /api/history with the id of a record removes that record, leaves
\* every other record as it is and answers 200, and the id names no record
\* ever after; DELETE with an id that names no record answers 404 and
\* changes nothing
DeleteOnce ==
    /\ [][\A id \in Ids :
            (response'[1].route = "history" /\ DeleteHistory(id)) =>
                IF id \in DOMAIN store
                THEN /\ DOMAIN store' = DOMAIN store \ {id}
                     /\ \A other \in DOMAIN store' : store'[other] = store[other]
                     /\ response'[1].status = 200
                ELSE /\ store' = store
                     /\ response'[1].status = 404]_vars
    /\ [][\A id \in Ids : Gone(id) => Gone(id)']_vars

\* C30: DELETE /api/history with the id of an existing record removes
\* exactly that record and answers with success; every later DELETE and
\* every later feedback request with the same id answers 404 and changes
\* nothing.
C30_DeleteOnce ==
    /\ DeleteOnce
    /\ [][\A id \in Ids : \A body \in Naming(id) :
            (Gone(id) /\ response'[1].route = "feedback" /\ PostFeedback(body)) =>
                /\ store' = store
                /\ response'[1].status = 404]_vars

\* C30, with the answer to a feedback that is not "real" or "fake": DELETE
\* /api/history with the id of an existing record removes exactly that
\* record and answers with success; every later DELETE with the same id
\* answers 404, every later feedback request with the same id answers 404
\* when its feedback is "real" or "fake" and 400 when it is not, and none of
\* them changes anything.
C30_DeleteOnceAmended ==
    /\ DeleteOnce
    /\ [][\A id \in Ids : \A body \in Naming(id) :
            (Gone(id) /\ response'[1].route = "feedback" /\ PostFeedback(body)) =>
                /\ store' = store
                /\ response'[1].status =
                     IF body.feedback \in {"real", "fake"} THEN 404 ELSE 400]_vars

\* of two stored records, the first has just been deleted and the second
\* is left with its feedback
C30_Witness ==
    /\ response # <<>>
    /\ response[1].route = "history"
    /\ response[1].status = 200
    /\ issued = 2
    /\ DOMAIN store = {2}
    /\ store[2].feedback = Some("real")

====
